---- MODULE Spec2Model ----
(***************************************************************************)
(* Verification model of attio-cli: the offset paginator                   *)
(* (src/pagination.ts), the cursor loops of the meetings and recordings    *)
(* commands, and the HTTP client's request loop (src/client.ts).           *)
(***************************************************************************)
EXTENDS Integers, Sequences, FiniteSets, TLC

(***************************************************************************)
(* Bounds of the model.                                                    *)
(***************************************************************************)
\* fetchPage calls whose arguments and pages are recorded; a loop that goes
\* on past this many calls keeps running but is no longer recorded (pSat).
MaxCalls == 3
\* pages the meetings / recordings server holds: the response to request
\* number MaxCursorPages carries no further cursor
MaxCursorPages == 3
\* longest filter expression given to parseFilterFlag, in characters
MaxFilterLen == 4
\* most --filter flags on one list command, most fragments combined
MaxFilters == 3

(***************************************************************************)
(* Program constants.                                                      *)
(***************************************************************************)
pageSize == 500
MAX_RETRIES == 3
INITIAL_BACKOFF_MS == 1000

VARIABLES
    pPc,        \* paginate: "idle" | "calling" | "awaiting" | "done" | "failed"
    pOpts,      \* the PaginationOptions paginate was called with
    pOffset,    \* local `offset` of the --all loop
    allResults, \* local `allResults` of the --all loop
    pCalls,     \* fetchPage calls made so far: <<[limit, offset], ...>>
    pResps,     \* how each call settled: <<[ok, len, err], ...>>
    pInFlight,  \* fetchPage promises not yet settled
    pResult,    \* {} while pending or rejected, {value} once resolved
    pError,     \* {} or {error paginate rejected with}
    pSat        \* TRUE once the loop ran past MaxCalls recorded calls

pagVars == <<pPc, pOpts, pOffset, allResults, pCalls, pResps, pInFlight,
             pResult, pError, pSat>>

VARIABLES
    cPc,        \* list command: "idle" | "awaiting" | "done" | "failed"
    cOpts,      \* [endpoint, cursor, all]: the command and its options
    cCursor,    \* local `cursor`: {} for undefined, {token} otherwise
    allItems,   \* local `allMeetings` / `allRecordings`
    cReqs,      \* GET requests sent: <<[endpoint, cursor], ...>>
    cResps,     \* responses received: <<[ok, len, next], ...>>
    cResult,    \* {} while pending or rejected, {value} once resolved
    cError      \* {} or {error the command rejected with}

curVars == <<cPc, cOpts, cCursor, allItems, cReqs, cResps, cResult, cError>>

VARIABLES
    hPc,        \* request: "idle" | "awaiting" | "sleeping" | "done" | "failed"
    hMethod,    \* HTTP method of the request
    hAttempt,   \* loop variable `attempt`
    hSent,      \* fetch calls made: the value of `attempt` at each call
    hResps,     \* responses received, in order
    hDelays,    \* `backoff` slept before each retry, in ms
    hResult,    \* {} while pending or rejected, {value} once resolved
    hError      \* {} or {error the request rejected with}

cliVars == <<hPc, hMethod, hAttempt, hSent, hResps, hDelays, hResult, hError>>

VARIABLES
    xPc,        \* handleError: "idle" | "exited"
    xErr,       \* the value handleError was called with: [cls, statusCode]
    xJsonMode,  \* program.opts().json || !process.stdout.isTTY
    xStderr,    \* what was written to stderr
    xExit       \* {} or {code passed to process.exit}

exitVars == <<xPc, xErr, xJsonMode, xStderr, xExit>>

VARIABLES
    fPc,        \* "idle" | "parsed" | "combined" | "listed"
    fExpr,      \* argument of parseFilterFlag
    fFrag,      \* what parseFilterFlag returned or threw
    fFrags,     \* argument of combineFilters
    fCombined,  \* what combineFilters returned
    lOpts,      \* listRecords: [filterJson, filter] of cmdOpts
    lFilter,    \* listRecords: local `filter`, {} for undefined
    lBody,      \* bodies of the POSTs to /records/query
    lError      \* {} or {error listRecords threw}

filterVars == <<fPc, fExpr, fFrag, fFrags, fCombined, lOpts, lFilter, lBody, lError>>

VARIABLES
    sPc,        \* "idle" | "parsed"
    sExpr,      \* argument of parseSort
    sSort       \* what parseSort returned

sortVars == <<sPc, sExpr, sSort>>

VARIABLES
    vPc,        \* "idle" | "value" | "record"
    vArg,       \* argument of flattenValue
    vOut,       \* what flattenValue returned or threw
    vRecord,    \* argument of flattenRecord
    vFlat       \* what flattenRecord returned or threw

flatVars == <<vPc, vArg, vOut, vRecord, vFlat>>

VARIABLES
    rPc,          \* "idle" | "done"
    rOpts,        \* options: values is {} or {text}, set is {} or {list}
    rStdin,       \* [isTTY, data] of process.stdin
    rOut,         \* what resolveValues returned or threw
    rReadFile,    \* paths given to readFileSync
    rParsedSets,  \* parseSets was called
    rReadStdin    \* "no" | "called" (readStdin ran) | "consumed" (chunks read)

resVars == <<rPc, rOpts, rStdin, rOut, rReadFile, rParsedSets, rReadStdin>>

VARIABLES
    tPc,        \* "idle" | "array" | "scalar"
    tSets,      \* argument of parseSets
    tOut        \* what parseSets returned or threw

setVars == <<tPc, tSets, tOut>>

VARIABLES
    wPc,        \* "idle" | "done"
    wCmd,       \* the command that ran
    wOpts,      \* its options: hasKey, match, values, set
    wStdin,     \* [isTTY, data] of process.stdin
    wSent,      \* the HTTP requests sent: [method, path, body]
    wError      \* {} or {error the handler threw}

writeVars == <<wPc, wCmd, wOpts, wStdin, wSent, wError>>

VARIABLES
    oPc,        \* "idle" | "single" | "list"
    oItems,     \* the items given to outputSingle / outputList
    oLog        \* the lines console.log printed

outVars == <<oPc, oItems, oLog>>

\* the delete commands
VARIABLES
    dPc,        \* "idle", "prompt" (confirm waits for the answer), "send", "done"
    dCmd,       \* the delete command that runs
    dOpts,      \* [yes, hasKey] of optsWithGlobals
    dAnswer,    \* {} or {line typed at the prompt}
    dLog,       \* what went to stderr
    dHttp,      \* HTTP requests sent
    dError      \* {} or {error the handler threw}

delVars == <<dPc, dCmd, dOpts, dAnswer, dLog, dHttp, dError>>

\* attio init
VARIABLES
    iPc,        \* "idle", "overwrite", "paste", "verifying", "done"
    iOpts,      \* [apiKey, tty, env]: --api-key ({} when absent), stdin.isTTY, ATTIO_API_KEY set
    iBefore,    \* apiKey of the config file when the command started, {} for none
    iStored,    \* apiKey of the config file now
    iKey,       \* {} or {the key after the clean-up of line 66}
    iHttp,      \* requests sent, with the key they carry
    iResp,      \* {} or {outcome of the request to /self}
    iExit       \* {} while running, {exit code} at the end

iniVars == <<iPc, iOpts, iBefore, iStored, iKey, iHttp, iResp, iExit>>

vars == <<pagVars, curVars, cliVars, exitVars, filterVars, sortVars, flatVars, resVars, setVars, writeVars, outVars, delVars, iniVars>>

\* what each component leaves alone
pagRest    == <<curVars, cliVars, exitVars, filterVars, sortVars, flatVars, resVars, setVars, writeVars, outVars, delVars, iniVars>>
curRest    == <<pagVars, cliVars, exitVars, filterVars, sortVars, flatVars, resVars, setVars, writeVars, outVars, delVars, iniVars>>
cliRest    == <<pagVars, curVars, exitVars, filterVars, sortVars, flatVars, resVars, setVars, writeVars, outVars, delVars, iniVars>>
exitRest   == <<pagVars, curVars, cliVars, filterVars, sortVars, flatVars, resVars, setVars, writeVars, outVars, delVars, iniVars>>
filterRest == <<pagVars, curVars, cliVars, exitVars, sortVars, flatVars, resVars, setVars, writeVars, outVars, delVars, iniVars>>
sortRest   == <<pagVars, curVars, cliVars, exitVars, filterVars, flatVars, resVars, setVars, writeVars, outVars, delVars, iniVars>>
flatRest   == <<pagVars, curVars, cliVars, exitVars, filterVars, sortVars, resVars, setVars, writeVars, outVars, delVars, iniVars>>
resRest    == <<pagVars, curVars, cliVars, exitVars, filterVars, sortVars, flatVars, setVars, writeVars, outVars, delVars, iniVars>>
setRest    == <<pagVars, curVars, cliVars, exitVars, filterVars, sortVars, flatVars, resVars, writeVars, outVars, delVars, iniVars>>
writeRest  == <<pagVars, curVars, cliVars, exitVars, filterVars, sortVars, flatVars, resVars, setVars, outVars, delVars, iniVars>>
outRest    == <<pagVars, curVars, cliVars, exitVars, filterVars, sortVars, flatVars, resVars, setVars, writeVars, delVars, iniVars>>
delRest    == <<pagVars, curVars, cliVars, exitVars, filterVars, sortVars, flatVars, resVars, setVars, writeVars, outVars, iniVars>>
iniRest    == <<pagVars, curVars, cliVars, exitVars, filterVars, sortVars, flatVars, resVars, setVars, writeVars, outVars, delVars>>

(***************************************************************************)
(* The fetchPage stub.  The k-th call that resolves with n items yields    *)
(* the page <<k,1>>, ..., <<k,n>>; a stub may return any number of items,  *)
(* whatever limit it was asked for.                                        *)
(***************************************************************************)
PageLens == {0, 2, 137, pageSize - 1, pageSize}
Limits   == {25, pageSize}
Offsets  == {0, 40}
Errors   == {"ECONNRESET", "AttioApiError"}

Page(k, n) == [i \in 1..n |-> <<k, i>>]

RECURSIVE ConcatPages(_, _)
\* the pages of the first k settled calls, concatenated in call order
ConcatPages(resps, k) ==
    IF k = 0 THEN <<>>
    ELSE ConcatPages(resps, k - 1) \o Page(k, resps[k].len)

(***************************************************************************)
(* paginate (src/pagination.ts:7-27), piece by piece.                      *)
(***************************************************************************)
\* mutant: the starting offset is dropped in single-page mode
SingleCallArgsNoOffset(opts) == [limit |-> opts.limit, offset |-> 0]

\* lines 11-12: without --all the caller's limit and offset are passed on
SingleCallArgs(opts) == [limit |-> opts.limit, offset |-> opts.offset]

\* line 16: `let offset = 0`
StartOffset(opts) == 0

\* line 20: fetchPage(pageSize, offset)
LoopCallArgs(offset) == [limit |-> pageSize, offset |-> offset]

\* line 21: allResults.push(...page)
PushAll(acc, page) == acc \o page

\* mutant: a full page is taken for the last one
IsLastPageOffByOne(page) == Len(page) <= pageSize

\* line 22: if (page.length < pageSize) break
IsLastPage(page) == Len(page) < pageSize

\* line 23: offset += pageSize
NextOffset(offset) == offset + pageSize

\* mutant: the loop does not wait for the promise
AfterCallNoAwait == "calling"

\* line 20: `await` - the loop is suspended until the promise settles
AfterCall == "awaiting"

\* mutant: the rejection is swallowed and the pages so far are returned
OnRejectReturnPartial(acc, err) == [pc |-> "done", result |-> {acc}, error |-> {}]

\* line 12 / line 20: a rejection of fetchPage is not caught; paginate
\* rejects with the same error and returns nothing
OnReject(acc, err) == [pc |-> "failed", result |-> {}, error |-> {err}]

PagInit ==
    /\ pPc = "idle"
    /\ pOpts = [limit |-> 0, offset |-> 0, all |-> FALSE]
    /\ pOffset = 0
    /\ allResults = <<>>
    /\ pCalls = <<>>
    /\ pResps = <<>>
    /\ pInFlight = 0
    /\ pResult = {}
    /\ pError = {}
    /\ pSat = FALSE

\* paginate(fetchPage, options) up to its first fetchPage call
PaginateStart(limit, offset, all) ==
    /\ UNCHANGED pagRest
    /\ pPc = "idle"
    /\ pOpts' = [limit |-> limit, offset |-> offset, all |-> all]
    /\ pOffset' = IF all THEN StartOffset(pOpts') ELSE 0
    /\ pPc' = "calling"
    /\ UNCHANGED <<allResults, pCalls, pResps, pInFlight, pResult, pError, pSat>>

\* the call fetchPage(...) itself: line 12 or line 20
FetchPageCall ==
    /\ UNCHANGED pagRest
    /\ pPc = "calling"
    /\ LET args == IF pOpts.all THEN LoopCallArgs(pOffset)
                   ELSE SingleCallArgs(pOpts)
       IN  IF Len(pCalls) < MaxCalls /\ ~pSat
           THEN /\ pCalls' = Append(pCalls, args)
                /\ pInFlight' = pInFlight + 1
                /\ pSat' = pSat
           ELSE /\ pSat' = TRUE
                /\ UNCHANGED <<pCalls, pInFlight>>
    /\ pPc' = AfterCall
    /\ UNCHANGED <<pOpts, pOffset, allResults, pResps, pResult, pError>>

\* the promise of the oldest unsettled call resolves with a page of n items
FetchPageResolve(n) ==
    /\ UNCHANGED pagRest
    /\ pPc \in {"awaiting", "calling"}
    /\ \/ pInFlight > 0 /\ ~pSat
       \/ pSat /\ pPc = "awaiting" /\ n = pageSize
    /\ IF pSat
       THEN \* unrecorded tail of a loop that only ever sees full pages
            /\ pPc' = "calling"
            /\ UNCHANGED <<pOffset, allResults, pResps, pInFlight, pResult>>
       ELSE LET k    == Len(pResps) + 1
                page == Page(k, n)
            IN  /\ pResps' = Append(pResps, [ok |-> TRUE, len |-> n, err |-> ""])
                /\ pInFlight' = pInFlight - 1
                /\ IF ~pOpts.all
                   THEN /\ pResult' = {page}
                        /\ pPc' = "done"
                        /\ UNCHANGED <<pOffset, allResults>>
                   ELSE /\ allResults' = PushAll(allResults, page)
                        /\ IF IsLastPage(page)
                           THEN /\ pResult' = {allResults'}
                                /\ pPc' = "done"
                                /\ pOffset' = pOffset
                           ELSE /\ pOffset' = NextOffset(pOffset)
                                /\ pPc' = "calling"
                                /\ pResult' = pResult
    /\ UNCHANGED <<pOpts, pCalls, pError, pSat>>

\* the promise of the oldest unsettled call rejects with err
FetchPageReject(err) ==
    /\ UNCHANGED pagRest
    /\ pPc \in {"awaiting", "calling"}
    /\ pInFlight > 0
    /\ ~pSat
    /\ pResps' = Append(pResps, [ok |-> FALSE, len |-> 0, err |-> err])
    /\ pInFlight' = pInFlight - 1
    /\ LET out == OnReject(allResults, err)
       IN  /\ pPc' = out.pc
           /\ pResult' = out.result
           /\ pError' = out.error
    /\ UNCHANGED <<pOpts, pOffset, allResults, pCalls, pSat>>

(***************************************************************************)
(* Cursor pagination: listMeetings (src/commands/meetings.ts:16-50) and    *)
(* listRecordingsForMeeting (the recordings command, lines 15-40) run the  *)
(* same loop against different endpoints.                                  *)
(***************************************************************************)
Endpoints   == {"meetings", "call_recordings"}
\* opaque continuation tokens
Tokens      == {"cursor_1", "cursor_2"}
UserCursors == {{}, {"cursor_0"}}
ItemLens    == {0, 1, 2}
\* pagination.next_cursor of a response: a token, null, or not there at all
NextCursors == {[kind |-> "token", tok |-> t] : t \in Tokens}
                 \cup {[kind |-> "null", tok |-> ""], [kind |-> "absent", tok |-> ""]}

\* `res.pagination?.next_cursor ?? undefined`
NextCursorOf(next) == IF next.kind = "token" THEN {next.tok} ELSE {}

\* `if (cursor)`: undefined and the empty string are falsy
Truthy(cursor) == cursor # {} /\ cursor # {""}

\* `if (cursor) params.set('cursor', cursor)`
CursorParam(cursor) == IF Truthy(cursor) THEN cursor ELSE {}

\* mutant: the loop follows the cursor even without --all
ContinuesIgnoringAll(all, cursor) == Truthy(cursor)

\* `if (!all) break; cursor = ...; if (!cursor) break;`
Continues(all, cursor) == all /\ Truthy(cursor)

CurInit ==
    /\ cPc = "idle"
    /\ cOpts = [endpoint |-> "meetings", cursor |-> {}, all |-> FALSE]
    /\ cCursor = {}
    /\ allItems = <<>>
    /\ cReqs = <<>>
    /\ cResps = <<>>
    /\ cResult = {}
    /\ cError = {}

\* the list function up to its first client.get
ListStart(endpoint, cursor, all) ==
    /\ UNCHANGED curRest
    /\ cPc = "idle"
    /\ cOpts' = [endpoint |-> endpoint, cursor |-> cursor, all |-> all]
    /\ cCursor' = cursor
    /\ cReqs' = <<[endpoint |-> endpoint, cursor |-> CursorParam(cursor)]>>
    /\ cPc' = "awaiting"
    /\ UNCHANGED <<allItems, cResps, cResult, cError>>

\* client.get resolved with `len` items and pagination.next_cursor = next
ListResponse(len, next) ==
    /\ UNCHANGED curRest
    /\ cPc = "awaiting"
    /\ next.kind = "token" => Len(cReqs) < MaxCursorPages
    /\ cResps' = Append(cResps, [ok |-> TRUE, len |-> len, next |-> next])
    /\ allItems' = allItems \o Page(Len(cReqs), len)
    /\ LET cursor == IF cOpts.all THEN NextCursorOf(next) ELSE cCursor
       IN  /\ cCursor' = cursor
           /\ IF Continues(cOpts.all, cursor)
              THEN /\ cReqs' = Append(cReqs, [endpoint |-> cOpts.endpoint,
                                              cursor |-> CursorParam(cursor)])
                   /\ cPc' = "awaiting"
                   /\ cResult' = cResult
              ELSE /\ cResult' = {allItems'}
                   /\ cPc' = "done"
                   /\ cReqs' = cReqs
    /\ UNCHANGED <<cOpts, cError>>

\* client.get rejected: nothing catches it inside the list function
ListReject(err) ==
    /\ UNCHANGED curRest
    /\ cPc = "awaiting"
    /\ cResps' = Append(cResps, [ok |-> FALSE, len |-> 0,
                                 next |-> [kind |-> "absent", tok |-> ""]])
    /\ cError' = {err}
    /\ cPc' = "failed"
    /\ UNCHANGED <<cOpts, cCursor, allItems, cReqs, cResult>>

CurNext ==
    \/ \E e \in Endpoints, c \in UserCursors, all \in BOOLEAN : ListStart(e, c, all)
    \/ \E len \in ItemLens, next \in NextCursors : ListResponse(len, next)
    \/ \E err \in Errors : ListReject(err)

(***************************************************************************)
(* AttioClient.request (src/client.ts:36-122).  A JSON object is a record; *)
(* JSON null is JNull; a string built by concatenation is the sequence of  *)
(* its pieces.                                                             *)
(***************************************************************************)
JNull     == [null__ |-> TRUE]
Undefined == [undefined__ |-> TRUE]

Methods  == {"GET", "POST", "PUT", "PATCH", "DELETE"}
Statuses == {200, 201, 204, 400, 401, 404, 429, 500}

StatusText(status) ==
    CASE status = 200 -> "OK"
      [] status = 201 -> "Created"
      [] status = 204 -> "No Content"
      [] status = 400 -> "Bad Request"
      [] status = 401 -> "Unauthorized"
      [] status = 404 -> "Not Found"
      [] status = 429 -> "Too Many Requests"
      [] OTHER        -> "Internal Server Error"

\* response bodies: parses = FALSE is a body response.json() cannot parse
Bodies ==
    { [parses |-> TRUE,  json |-> [data |-> [id |-> "rec_1"]]],
      [parses |-> TRUE,  json |-> [type |-> "not_found", message |-> "Record not found"]],
      [parses |-> TRUE,  json |-> [detail |-> "Conflict on domains"]],
      [parses |-> TRUE,  json |-> [type |-> "validation_type", message |-> "Invalid body",
                                   validation_errors |->
                                      << [path |-> <<"values", "name">>, message |-> "Required"],
                                         [message |-> "Unrecognized key"] >>]],
      [parses |-> TRUE,  json |-> JNull],
      [parses |-> FALSE, json |-> JNull] }

\* the Retry-After header: none, a number of seconds, an HTTP date (v is
\* the date minus Date.now(), in ms) or text that is neither
RetryAfters ==
    { [kind |-> "none", v |-> 0], [kind |-> "seconds", v |-> 0],
      [kind |-> "seconds", v |-> 2], [kind |-> "date", v |-> 3000],
      [kind |-> "date", v |-> 0 - 500], [kind |-> "garbage", v |-> 0] }

Responses ==
    { [status |-> 429, body |-> [parses |-> TRUE, json |-> JNull], retryAfter |-> h] :
          h \in RetryAfters }
    \cup
    { [status |-> st, body |-> b, retryAfter |-> [kind |-> "none", v |-> 0]] :
          st \in Statuses \ {429}, b \in Bodies }

Max(a, b) == IF a >= b THEN a ELSE b

RECURSIVE Pow2(_)
\* Math.pow(2, n)
Pow2(n) == IF n = 0 THEN 1 ELSE 2 * Pow2(n - 1)

\* getRetryDelayMs with a delay that grows by INITIAL_BACKOFF_MS per attempt
getRetryDelayMsLinear(retryAfter, attempt) ==
    IF retryAfter.kind = "seconds" THEN Max(0, retryAfter.v * 1000)
    ELSE IF retryAfter.kind = "date" THEN Max(0, retryAfter.v)
    ELSE INITIAL_BACKOFF_MS * (attempt + 1)

\* getRetryDelayMs (lines 10-25)
getRetryDelayMs(retryAfter, attempt) ==
    IF retryAfter.kind = "seconds" THEN Max(0, retryAfter.v * 1000)
    ELSE IF retryAfter.kind = "date" THEN Max(0, retryAfter.v)
    ELSE INITIAL_BACKOFF_MS * Pow2(attempt)

\* line 81
Backoff(retryAfter, attempt) == Max(100, getRetryDelayMs(retryAfter, attempt))

\* response.ok
Ok(status) == 200 <= status /\ status <= 299

\* mutant: server errors are retried as well
ClassifyRetryServerErrors(status, attempt) ==
    IF status = 429 \/ status >= 500
    THEN (IF attempt < MAX_RETRIES THEN "retry" ELSE "ratelimit")
    ELSE IF status = 401 THEN "auth"
    ELSE IF status = 204 THEN "nocontent"
    ELSE "body"

\* mutant: a 401 is only recognised on the first attempt
ClassifyAuthFirstAttemptOnly(status, attempt) ==
    IF status = 429
    THEN (IF attempt < MAX_RETRIES THEN "retry" ELSE "ratelimit")
    ELSE IF status = 401 /\ attempt = 0 THEN "auth"
    ELSE IF status = 204 THEN "nocontent"
    ELSE "body"

\* lines 79-97: the chain of status checks, in the order of the code
Classify(status, attempt) ==
    IF status = 429
    THEN (IF attempt < MAX_RETRIES THEN "retry" ELSE "ratelimit")
    ELSE IF status = 401 THEN "auth"
    ELSE IF status = 204 THEN "nocontent"
    ELSE "body"

\* `json?.f`: {} when json is null or has no field f
Get(json, f) == IF f \in DOMAIN json THEN {json[f]} ELSE {}

RECURSIVE Join(_, _)
\* Array.prototype.join, as the sequence of the pieces
Join(parts, sep) ==
    IF Len(parts) = 0 THEN <<>>
    ELSE IF Len(parts) = 1 THEN parts[1]
    ELSE parts[1] \o <<sep>> \o Join(Tail(parts), sep)

\* line 110: `${e.path?.join('.') || '?'}: ${e.message}`
ValidationLine(e) ==
    LET path == IF "path" \in DOMAIN e
                THEN Join([i \in 1..Len(e.path) |-> <<e.path[i]>>], ".")
                ELSE <<>>
    IN  (IF path = <<>> THEN <<"?">> ELSE path) \o <<": ", e.message>>

\* lines 107-113
ErrorDetail(json, status) ==
    LET base == IF Get(json, "message") # {} THEN json.message
                ELSE IF Get(json, "detail") # {} THEN json.detail
                ELSE StatusText(status)
        errs == IF "validation_errors" \in DOMAIN json
                THEN json.validation_errors ELSE <<>>
    IN  IF Len(errs) > 0
        THEN <<base, " [">>
               \o Join([i \in 1..Len(errs) |-> ValidationLine(errs[i])], "; ")
               \o <<"]">>
        ELSE <<base>>

\* line 106
ErrorType(json) == IF Get(json, "type") # {} THEN json.type ELSE "unknown_error"

Err(name, statusCode, type, detail) ==
    [name |-> name, statusCode |-> statusCode, type |-> type, detail |-> detail]

\* mutant: the client strips the {"data": ...} envelope itself
ResolvedValueUnwrapped(json) == IF "data" \in DOMAIN json THEN json.data ELSE json

\* line 117: `return json as T`
ResolvedValue(json) == json

CliInit ==
    /\ hPc = "idle"
    /\ hMethod = "GET"
    /\ hAttempt = 0
    /\ hSent = <<>>
    /\ hResps = <<>>
    /\ hDelays = <<>>
    /\ hResult = {}
    /\ hError = {}

\* get/post/put/patch/delete -> request, up to the first fetch (lines 36-65)
Request(method, hasKey) ==
    /\ UNCHANGED cliRest
    /\ hPc = "idle"
    /\ hMethod' = method
    /\ hAttempt' = 0
    /\ IF ~hasKey
       THEN /\ hError' = {Err("AttioAuthError", 0, "", <<"No API key configured">>)}
            /\ hPc' = "failed"
            /\ hSent' = hSent
       ELSE /\ hSent' = <<0>>
            /\ hPc' = "awaiting"
            /\ hError' = hError
    /\ UNCHANGED <<hResps, hDelays, hResult>>

\* fetch resolved with a response (lines 73-117)
FetchResponse(resp) ==
    /\ UNCHANGED cliRest
    /\ hPc = "awaiting"
    /\ hResps' = Append(hResps, resp)
    /\ LET cls  == Classify(resp.status, hAttempt)
           json == resp.body.json
       IN  CASE cls = "retry" ->
                  /\ hDelays' = Append(hDelays, Backoff(resp.retryAfter, hAttempt))
                  /\ hPc' = "sleeping"
                  /\ UNCHANGED <<hResult, hError>>
             [] cls = "ratelimit" ->
                  /\ hError' = {Err("AttioRateLimitError", 0, "",
                                    <<"Rate limited after 3 retries">>)}
                  /\ hPc' = "failed"
                  /\ UNCHANGED <<hResult, hDelays>>
             [] cls = "auth" ->
                  /\ hError' = {Err("AttioAuthError", 0, "",
                                    <<"Invalid or expired API key">>)}
                  /\ hPc' = "failed"
                  /\ UNCHANGED <<hResult, hDelays>>
             [] cls = "nocontent" ->
                  /\ hResult' = {Undefined}
                  /\ hPc' = "done"
                  /\ UNCHANGED <<hError, hDelays>>
             [] OTHER ->
                  IF ~resp.body.parses
                  THEN \* `await response.json()` throws
                       /\ hError' = {Err("SyntaxError", 0, "", <<"Unexpected token">>)}
                       /\ hPc' = "failed"
                       /\ UNCHANGED <<hResult, hDelays>>
                  ELSE IF ~Ok(resp.status)
                  THEN /\ hError' = {Err("AttioApiError", resp.status, ErrorType(json),
                                         ErrorDetail(json, resp.status))}
                       /\ hPc' = "failed"
                       /\ UNCHANGED <<hResult, hDelays>>
                  ELSE /\ hResult' = {ResolvedValue(json)}
                       /\ hPc' = "done"
                       /\ UNCHANGED <<hError, hDelays>>
    /\ UNCHANGED <<hMethod, hAttempt, hSent>>

\* the backoff timer fired: `continue`, attempt++, next fetch (lines 85-86, 60-65)
BackoffElapsed ==
    /\ UNCHANGED cliRest
    /\ hPc = "sleeping"
    /\ hAttempt' = hAttempt + 1
    /\ IF hAttempt' <= MAX_RETRIES
       THEN /\ hSent' = Append(hSent, hAttempt')
            /\ hPc' = "awaiting"
            /\ hError' = hError
       ELSE \* line 121
            /\ hError' = {Err("AttioRateLimitError", 0, "",
                              <<"Rate limited after 3 retries">>)}
            /\ hPc' = "failed"
            /\ hSent' = hSent
    /\ UNCHANGED <<hMethod, hResps, hDelays, hResult>>

\* fetch rejected: the 30 s timer aborted it, or the network failed (lines 66-72)
FetchThrows(name) ==
    /\ UNCHANGED cliRest
    /\ hPc = "awaiting"
    /\ hError' = IF name = "AbortError"
                 THEN {Err("Error", 0, "", <<"Request timed out after ", "30", "s: ", hMethod>>)}
                 ELSE {Err(name, 0, "", <<"fetch failed">>)}
    /\ hPc' = "failed"
    /\ UNCHANGED <<hMethod, hAttempt, hSent, hResps, hDelays, hResult>>

CliNext ==
    \/ \E m \in Methods, hasKey \in BOOLEAN : Request(m, hasKey)
    \/ \E resp \in Responses : FetchResponse(resp)
    \/ BackoffElapsed
    \/ \E name \in {"AbortError", "TypeError"} : FetchThrows(name)

(***************************************************************************)
(* handleError (bin/attio.ts:49-93) and the exitCode getters of the error  *)
(* classes (src/errors.ts:19-50).                                          *)
(***************************************************************************)
StatusCodes  == 300..599
ErrorClasses == {"AttioApiError", "AttioAuthError", "AttioRateLimitError",
                 "Error", "non-Error"}
\* the values handleError can be given
Thrown ==
    { [cls |-> "AttioApiError", statusCode |-> st] : st \in StatusCodes }
    \cup { [cls |-> c, statusCode |-> 0] : c \in ErrorClasses \ {"AttioApiError"} }

\* mutant: 409 conflicts fall through to the general code
ApiExitCodeNo409(statusCode) ==
    IF statusCode = 401 \/ statusCode = 403 THEN 2
    ELSE IF statusCode = 404 THEN 3
    ELSE IF statusCode = 400 THEN 4
    ELSE IF statusCode = 429 THEN 5
    ELSE 1

\* AttioApiError.exitCode (errors.ts:19-25)
ApiExitCode(statusCode) ==
    IF statusCode = 401 \/ statusCode = 403 THEN 2
    ELSE IF statusCode = 404 THEN 3
    ELSE IF statusCode = 400 \/ statusCode = 409 THEN 4
    ELSE IF statusCode = 429 THEN 5
    ELSE 1

\* AttioAuthError.exitCode (errors.ts:42)
AuthExitCode == 2

\* AttioRateLimitError.exitCode (errors.ts:49)
RateLimitExitCode == 5

ExitInit ==
    /\ xPc = "idle"
    /\ xErr = [cls |-> "Error", statusCode |-> 0]
    /\ xJsonMode = FALSE
    /\ xStderr = <<>>
    /\ xExit = {}

\* handleError(err): the instanceof chain, top to bottom
HandleError(err, jsonMode) ==
    /\ UNCHANGED exitRest
    /\ xPc = "idle"
    /\ xErr' = err
    /\ xJsonMode' = jsonMode
    /\ xPc' = "exited"
    /\ IF err.cls = "AttioApiError"
       THEN /\ xStderr' = IF jsonMode THEN <<"json", err.statusCode>> ELSE <<"display">>
            /\ xExit' = {ApiExitCode(err.statusCode)}
       ELSE IF err.cls = "AttioAuthError"
       THEN /\ xStderr' = IF jsonMode THEN <<"json", 401>> ELSE <<"display">>
            /\ xExit' = {AuthExitCode}
       ELSE IF err.cls = "AttioRateLimitError"
       THEN /\ xStderr' = IF jsonMode THEN <<"json", 429>> ELSE <<"display">>
            /\ xExit' = {RateLimitExitCode}
       ELSE /\ xStderr' = IF jsonMode THEN <<"json", "unknown_error">> ELSE <<"message">>
            /\ xExit' = {1}

ExitNext == \E err \in Thrown, jsonMode \in BOOLEAN : HandleError(err, jsonMode)

(***************************************************************************)
(* Strings are sequences of one-character strings.                         *)
(***************************************************************************)
Str(n, chars) == UNION {[1..k -> chars] : k \in 0..n}

\* String.prototype.slice(a, b) for 0 <= a, b <= length
Slice(s, a, b) == SubSeq(s, a + 1, b)

\* String.prototype.startsWith at position i (0-based)
MatchesAt(s, t, i) ==
    /\ i + Len(t) <= Len(s)
    /\ SubSeq(s, i + 1, i + Len(t)) = t

\* String.prototype.indexOf: first position of t in s, -1 when there is none
IndexOf(s, t) ==
    LET hits == {i \in 0..Len(s) : MatchesAt(s, t, i)}
    IN  IF hits = {} THEN 0 - 1
        ELSE CHOOSE i \in hits : \A j \in hits : i <= j

EndsWith(s, t) == Len(t) <= Len(s) /\ SubSeq(s, Len(s) - Len(t) + 1, Len(s)) = t

StartsWith(s, t) == MatchesAt(s, t, 0)

RECURSIVE TrimStart(_)
TrimStart(s) == IF s # <<>> /\ Head(s) = " " THEN TrimStart(Tail(s)) ELSE s

RECURSIVE TrimEnd(_)
TrimEnd(s) ==
    IF s # <<>> /\ s[Len(s)] = " " THEN TrimEnd(SubSeq(s, 1, Len(s) - 1)) ELSE s

\* String.prototype.trim
Trim(s) == TrimEnd(TrimStart(s))

Digits == {"0", "1", "2", "3", "4", "5", "6", "7", "8", "9"}

DigitVal(c) ==
    CASE c = "0" -> 0 [] c = "1" -> 1 [] c = "2" -> 2 [] c = "3" -> 3
      [] c = "4" -> 4 [] c = "5" -> 5 [] c = "6" -> 6 [] c = "7" -> 7
      [] c = "8" -> 8 [] OTHER -> 9

RECURSIVE DecimalVal(_)
DecimalVal(s) ==
    IF s = <<>> THEN 0
    ELSE 10 * DecimalVal(SubSeq(s, 1, Len(s) - 1)) + DigitVal(s[Len(s)])

\* Number(text) on the strings of the model (letters, digits, blanks and
\* operator characters): blanks around the text are ignored, the empty
\* text is 0, a run of digits is its decimal value, anything else is NaN
Number(s) ==
    LET t == Trim(s)
    IN  IF t = <<>> THEN [nan |-> FALSE, n |-> 0]
        ELSE IF \A i \in 1..Len(t) : t[i] \in Digits
        THEN [nan |-> FALSE, n |-> DecimalVal(t)]
        ELSE [nan |-> TRUE, n |-> 0]

\* JSON values a filter holds
StrVal(s)  == [t |-> "string", s |-> s, n |-> 0]
NumVal(n)  == [t |-> "number", s |-> <<>>, n |-> n]
TrueVal    == [t |-> "boolean", s |-> <<>>, n |-> 1]

(***************************************************************************)
(* Filter parser (src/filters.ts:5-46).                                    *)
(***************************************************************************)
FilterChars == {"a", "5", " ", ">", "<", "=", "!", "~", "^", "?"}
FilterExprs == Str(MaxFilterLen, FilterChars)

\* mutant: the one-character operators are tried before the longer ones
OPERATORSShortFirst ==
    << [cli |-> <<">">>,      attio |-> "$gt",          numeric |-> TRUE,  unary |-> FALSE],
       [cli |-> <<"<">>,      attio |-> "$lt",          numeric |-> TRUE,  unary |-> FALSE],
       [cli |-> <<"~">>,      attio |-> "$contains",    numeric |-> FALSE, unary |-> FALSE],
       [cli |-> <<"^">>,      attio |-> "$starts_with", numeric |-> FALSE, unary |-> FALSE],
       [cli |-> <<"?">>,      attio |-> "$not_empty",   numeric |-> FALSE, unary |-> TRUE],
       [cli |-> <<"=">>,      attio |-> "$eq",          numeric |-> FALSE, unary |-> FALSE],
       [cli |-> <<">", "=">>, attio |-> "$gte",         numeric |-> TRUE,  unary |-> FALSE],
       [cli |-> <<"<", "=">>, attio |-> "$lte",         numeric |-> TRUE,  unary |-> FALSE],
       [cli |-> <<"!", "=">>, attio |-> "$not",         numeric |-> FALSE, unary |-> FALSE],
       [cli |-> <<"!", "~">>, attio |-> "$not",         numeric |-> FALSE, unary |-> FALSE] >>

\* lines 5-16, in the order of the source
OPERATORS ==
    << [cli |-> <<">", "=">>, attio |-> "$gte",         numeric |-> TRUE,  unary |-> FALSE],
       [cli |-> <<"<", "=">>, attio |-> "$lte",         numeric |-> TRUE,  unary |-> FALSE],
       [cli |-> <<"!", "=">>, attio |-> "$not",         numeric |-> FALSE, unary |-> FALSE],
       [cli |-> <<">">>,      attio |-> "$gt",          numeric |-> TRUE,  unary |-> FALSE],
       [cli |-> <<"<">>,      attio |-> "$lt",          numeric |-> TRUE,  unary |-> FALSE],
       [cli |-> <<"!", "~">>, attio |-> "$not",         numeric |-> FALSE, unary |-> FALSE],
       [cli |-> <<"~">>,      attio |-> "$contains",    numeric |-> FALSE, unary |-> FALSE],
       [cli |-> <<"^">>,      attio |-> "$starts_with", numeric |-> FALSE, unary |-> FALSE],
       [cli |-> <<"?">>,      attio |-> "$not_empty",   numeric |-> FALSE, unary |-> TRUE],
       [cli |-> <<"=">>,      attio |-> "$eq",          numeric |-> FALSE, unary |-> FALSE] >>

\* the four shapes of a fragment:
\*   "bare"     {attr: value}            "op"      {attr: {op: value}}
\*   "not_bare" {$not: {attr: value}}    "not_op"  {$not: {attr: {op: value}}}
Fragment(shape, attr, op, value) ==
    [ok |-> TRUE, shape |-> shape, attr |-> attr, op |-> op, value |-> value]

\* mutant: the message does not name the expression
FilterErrorNoExpr(filterStr) ==
    [ok |-> FALSE, message |-> <<"Invalid filter syntax. Expected: attribute<operator>value">>]

\* line 39
FilterError(filterStr) ==
    [ok |-> FALSE,
     message |-> <<"Invalid filter syntax: \"", filterStr,
                   "\". Expected: attribute<operator>value">>]

\* line 31
CoerceValue(op, rawValue) ==
    IF op.numeric /\ ~Number(rawValue).nan
    THEN NumVal(Number(rawValue).n)
    ELSE StrVal(rawValue)

\* lines 29-36: the split and the fragment for operator op found at idx
ApplyOperator(filterStr, op, idx) ==
    LET attribute == Trim(Slice(filterStr, 0, idx))
        rawValue  == Trim(Slice(filterStr, idx + Len(op.cli), Len(filterStr)))
        value     == CoerceValue(op, rawValue)
    IN  IF op.cli = <<"=">> THEN Fragment("bare", attribute, "", value)
        ELSE IF op.cli = <<"!", "=">> THEN Fragment("not_bare", attribute, "", value)
        ELSE IF op.cli = <<"!", "~">> THEN Fragment("not_op", attribute, "$contains", value)
        ELSE Fragment("op", attribute, op.attio, value)

RECURSIVE ScanOperators(_, _, _)
\* lines 24-39: the for loop over ops, from index k on
ScanOperators(filterStr, ops, k) ==
    IF k > Len(ops) THEN FilterError(filterStr)
    ELSE IF ops[k].unary THEN ScanOperators(filterStr, ops, k + 1)
    ELSE LET idx == IndexOf(filterStr, ops[k].cli)
         IN  IF idx = 0 - 1 THEN ScanOperators(filterStr, ops, k + 1)
             ELSE ApplyOperator(filterStr, ops[k], idx)

\* lines 18-40
parseFilterFlag(filterStr) ==
    IF EndsWith(filterStr, <<"?">>)
    THEN Fragment("op", Slice(filterStr, 0, Len(filterStr) - 1), "$not_empty", TrueVal)
    ELSE ScanOperators(filterStr, OPERATORS, 1)

\* mutant: a single fragment is wrapped in $and as well
combineFiltersAlwaysAnd(filters) ==
    IF Len(filters) = 0 THEN [ok |-> TRUE, shape |-> "empty"]
    ELSE [ok |-> TRUE, shape |-> "and", items |-> filters]

\* lines 42-46; "empty" is {}, "and" is {$and: items}
combineFilters(filters) ==
    IF Len(filters) = 0 THEN [ok |-> TRUE, shape |-> "empty"]
    ELSE IF Len(filters) = 1 THEN filters[1]
    ELSE [ok |-> TRUE, shape |-> "and", items |-> filters]

\* Object.keys(filter).length
KeyCount(filter) == IF filter.shape = "empty" THEN 0 ELSE 1

\* expressions given to --filter on a list command
ListExprs ==
    { <<"a", "~", "a">>, <<"a", ">", "=", "5">>, <<"a", "=", "5">>, <<"a", "?">>,
      <<"5", "!", "=", "a">>, <<"a">>, <<>> }
FilterLists == UNION {[1..k -> ListExprs] : k \in 0..MaxFilters}

\* fragments handed to combineFilters
SomeFragments == {parseFilterFlag(e) : e \in {x \in ListExprs : parseFilterFlag(x).ok}}
FragmentLists == UNION {[1..k -> SomeFragments] : k \in 0..MaxFilters}

RECURSIVE MapParse(_, _)
\* (cmdOpts.filter).map(parseFilterFlag): the fragments, or the first error
MapParse(exprs, acc) ==
    IF exprs = <<>> THEN [ok |-> TRUE, frags |-> acc]
    ELSE LET r == parseFilterFlag(Head(exprs))
         IN  IF r.ok THEN MapParse(Tail(exprs), Append(acc, r))
             ELSE [ok |-> FALSE, error |-> r]

FilterInit ==
    /\ fPc = "idle"
    /\ fExpr = <<>>
    /\ fFrag = FilterError(<<>>)
    /\ fFrags = <<>>
    /\ fCombined = [ok |-> TRUE, shape |-> "empty"]
    /\ lOpts = [filterJson |-> [given |-> FALSE, text |-> <<>>], filter |-> <<>>]
    /\ lFilter = {}
    /\ lBody = <<>>
    /\ lError = {}

\* a call of parseFilterFlag
ParseFilterFlag ==
    /\ fPc = "idle"
    /\ UNCHANGED filterRest
    /\ \E expr \in FilterExprs :
          /\ fPc' = "parsed"
          /\ fExpr' = expr
          /\ fFrag' = parseFilterFlag(expr)
          /\ UNCHANGED <<fFrags, fCombined, lOpts, lFilter, lBody, lError>>

\* a call of combineFilters
CombineFilters ==
    /\ fPc = "idle"
    /\ UNCHANGED filterRest
    /\ \E filters \in FragmentLists :
          /\ fPc' = "combined"
          /\ fFrags' = filters
          /\ fCombined' = combineFilters(filters)
          /\ UNCHANGED <<fExpr, fFrag, lOpts, lFilter, lBody, lError>>

(***************************************************************************)
(* parseSort.  An absent field is the empty set.                           *)
(***************************************************************************)
MaxSortLen == 4

SortChars == {"n", "d", ":", "."}

SortExprs == Str(MaxSortLen, SortChars)

Asc == <<"a", "s", "c">>

\* String.prototype.split(sep) for a one-character separator
RECURSIVE Split(_, _)
Split(s, sep) ==
    LET i == IndexOf(s, sep)
    IN IF i = -1
          THEN <<s>>
          ELSE <<Slice(s, 0, i)>> \o Split(Slice(s, i + 1, Len(s)), sep)

\* a destructuring default applies to undefined only: a part that is
\* present and empty stays empty
parseSort(sortStr) ==
    LET parts     == Split(sortStr, <<":">>)
        attrPart  == parts[1]
        direction == IF Len(parts) >= 2 THEN parts[2] ELSE Asc
        names     == Split(attrPart, <<".">>)
        attribute == names[1]
        field     == IF Len(names) >= 2 /\ names[2] # <<>> THEN {names[2]} ELSE {}
    IN [attribute |-> attribute, field |-> field, direction |-> direction]

SortInit ==
    /\ sPc = "idle"
    /\ sExpr = <<>>
    /\ sSort = [attribute |-> <<>>, field |-> {}, direction |-> Asc]

ParseSort ==
    /\ sPc = "idle"
    /\ UNCHANGED sortRest
    /\ \E expr \in SortExprs :
          /\ sExpr' = expr
          /\ sSort' = parseSort(expr)
          /\ sPc' = "parsed"

SortNext == ParseSort

(***************************************************************************)
(* JavaScript values of the flattener (src/values.ts:1-50).  A value is    *)
(* undefined, null, a string, a number, a boolean or an object; an object  *)
(* is a function from its keys to values and a missing key reads as        *)
(* undefined.                                                              *)
(***************************************************************************)
UndefVal  == [t |-> "undefined", s |-> <<>>, n |-> 0]
NullVal   == [t |-> "null", s |-> <<>>, n |-> 0]
FalseVal  == [t |-> "boolean", s |-> <<>>, n |-> 0]
ObjVal(o) == [t |-> "object", s |-> <<>>, n |-> 0, o |-> o]
ArrVal(a) == [t |-> "array", s |-> <<>>, n |-> 0, a |-> a]
EmptyStr  == StrVal(<<>>)

\* val.k
Field(val, k) ==
    IF val.t = "object" /\ k \in DOMAIN val.o THEN val.o[k] ELSE UndefVal

\* val?.k
OptionalField(val, k) ==
    IF val.t \in {"undefined", "null"} THEN UndefVal ELSE Field(val, k)

IsTruthy(v) ==
    CASE v.t = "string"  -> v.s # <<>>
      [] v.t = "number"  -> v.n # 0
      [] v.t = "boolean" -> v.n = 1
      [] v.t = "object"  -> TRUE
      [] v.t = "array"   -> TRUE
      [] OTHER           -> FALSE

Nullish(v) == v.t \in {"undefined", "null"}

\* a || b
Or(a, b) == IF IsTruthy(a) THEN a ELSE b

\* a ?? b
Coalesce(a, b) == IF Nullish(a) THEN b ELSE a

DigitChars == <<"0", "1", "2", "3", "4", "5", "6", "7", "8", "9">>

RECURSIVE NatToString(_)
NatToString(n) ==
    IF n < 10 THEN <<DigitChars[n + 1]>>
    ELSE NatToString(n \div 10) \o <<DigitChars[(n % 10) + 1]>>

\* String(v), also what a template literal does to ${v}
String(v) ==
    CASE v.t = "string"    -> v.s
      [] v.t = "number"    -> IF v.n < 0 THEN <<"-">> \o NatToString(-v.n)
                                         ELSE NatToString(v.n)
      [] v.t = "boolean"   -> IF v.n = 1 THEN <<"t", "r", "u", "e">> ELSE <<"f", "a", "l", "s", "e">>
      [] v.t = "undefined" -> <<"u", "n", "d", "e", "f", "i", "n", "e", "d">>
      [] v.t = "null"      -> <<"n", "u", "l", "l">>
      [] v.t = "object"    -> <<"[", "o", "b", "j", "e", "c", "t", " ", "O", "b", "j", "e", "c", "t", "]">>

\* Array.prototype.join on strings
RECURSIVE JoinStrings(_, _)
JoinStrings(parts, sep) ==
    IF parts = <<>> THEN <<>>
    ELSE IF Len(parts) = 1 THEN parts[1]
    ELSE parts[1] \o sep \o JoinStrings(Tail(parts), sep)

\* Array.prototype.join on values: undefined and null give the empty text
RECURSIVE JoinValues(_, _)
JoinValues(vals, sep) ==
    JoinStrings([i \in 1..Len(vals) |->
                    IF Nullish(vals[i]) THEN <<>> ELSE String(vals[i])], sep)

\* s?.slice(0, n) on a string, undefined or null
OptionalSlice(v, n) ==
    IF Nullish(v) THEN UndefVal
    ELSE StrVal(Slice(v.s, 0, IF Len(v.s) < n THEN Len(v.s) ELSE n))

\* the text of a key and the order in which JSON.stringify writes the keys
\* of an element that has no known type
KeyOrder == <<"attribute_type", "value", "title">>

KeyText(k) ==
    CASE k = "attribute_type" -> <<"a", "t", "t", "r", "i", "b", "u", "t", "e", "_", "t", "y", "p", "e">>
      [] k = "value"          -> <<"v", "a", "l", "u", "e">>
      [] k = "title"          -> <<"t", "i", "t", "l", "e">>

Quote(s) == <<"\"">> \o s \o <<"\"">>

\* JSON.stringify of a scalar
JsonScalar(v) == IF v.t = "string" THEN Quote(v.s) ELSE String(v)

\* JSON.stringify of an object of scalars
JsonStringify(val) ==
    LET keys == SelectSeq(KeyOrder, LAMBDA k : k \in DOMAIN val.o)
    IN <<"{">>
       \o JoinStrings([i \in 1..Len(keys) |->
                          Quote(KeyText(keys[i])) \o <<":">> \o JsonScalar(val.o[keys[i]])],
                      <<",">>)
       \o <<"}">>

(***************************************************************************)
(* flattenSingleValue, flattenValue and flattenRecord.  A call either      *)
(* returns a value or throws.                                              *)
(***************************************************************************)
Returned(v) == [ok |-> TRUE, v |-> v]
ThrownTypeError == [ok |-> FALSE, error |-> "TypeError"]

DateLen == 10

ValueTypes ==
    {<<"t", "e", "x", "t">>, <<"n", "u", "m", "b", "e", "r">>, <<"c", "h", "e", "c", "k", "b", "o", "x">>, <<"d", "a", "t", "e">>, <<"t", "i", "m", "e", "s", "t", "a", "m", "p">>, <<"r", "a", "t", "i", "n", "g">>}

\* mutant: the title is tried before the value
FallbackTextTitleFirst(val) ==
    String(Coalesce(Field(val, "title"),
                    Coalesce(Field(val, "value"), StrVal(JsonStringify(val)))))

\* line 36
FallbackText(val) ==
    String(Coalesce(Field(val, "value"),
                    Coalesce(Field(val, "title"), StrVal(JsonStringify(val)))))

flattenSingleValue(val) ==
    IF ~IsTruthy(val) THEN EmptyStr
    ELSE
    LET type == Field(val, "attribute_type")
        Is(name) == type = StrVal(name)
    IN
    CASE type.t = "string" /\ type.s \in ValueTypes ->
           StrVal(String(Coalesce(Field(val, "value"), EmptyStr)))
      [] Is(<<"c", "u", "r", "r", "e", "n", "c", "y">>) ->
           StrVal(String(Coalesce(Field(val, "currency_value"),
                                  Coalesce(Field(val, "value"), EmptyStr))))
      [] Is(<<"p", "e", "r", "s", "o", "n", "a", "l", "-", "n", "a", "m", "e">>) ->
           Or(Field(val, "full_name"),
              StrVal(Trim(String(Or(Field(val, "first_name"), EmptyStr))
                          \o <<" ">>
                          \o String(Or(Field(val, "last_name"), EmptyStr)))))
      [] Is(<<"e", "m", "a", "i", "l", "-", "a", "d", "d", "r", "e", "s", "s">>) ->
           Or(Field(val, "email_address"),
              Or(Field(val, "original_email_address"), EmptyStr))
      [] Is(<<"p", "h", "o", "n", "e", "-", "n", "u", "m", "b", "e", "r">>) ->
           Or(Field(val, "original_phone_number"),
              Or(Field(val, "phone_number"), EmptyStr))
      [] Is(<<"d", "o", "m", "a", "i", "n">>) ->
           Or(Field(val, "domain"), EmptyStr)
      [] Is(<<"s", "e", "l", "e", "c", "t">>) ->
           Or(OptionalField(Field(val, "option"), "title"), EmptyStr)
      [] Is(<<"s", "t", "a", "t", "u", "s">>) ->
           Or(OptionalField(Field(val, "status"), "title"), EmptyStr)
      [] Is(<<"l", "o", "c", "a", "t", "i", "o", "n">>) ->
           StrVal(JoinValues(SelectSeq(<<Field(val, "locality"),
                                         Field(val, "region"),
                                         Field(val, "country_code")>>,
                                       IsTruthy),
                             <<",", " ">>))
      [] Is(<<"r", "e", "c", "o", "r", "d", "-", "r", "e", "f", "e", "r", "e", "n", "c", "e">>) ->
           StrVal(String(Field(val, "target_object")) \o <<":">>
                  \o String(Field(val, "target_record_id")))
      [] Is(<<"a", "c", "t", "o", "r", "-", "r", "e", "f", "e", "r", "e", "n", "c", "e">>) ->
           StrVal(<<"m", "e", "m", "b", "e", "r", ":">> \o String(Field(val, "referenced_actor_id")))
      [] Is(<<"i", "n", "t", "e", "r", "a", "c", "t", "i", "o", "n">>) ->
           StrVal(String(Field(val, "interaction_type")) \o <<" ", "@", " ">>
                  \o String(Or(OptionalSlice(Field(val, "interacted_at"), DateLen),
                               EmptyStr)))
      [] OTHER -> StrVal(FallbackText(val))

\* mutant: attrValues.length is read without the `!attrValues` test
flattenValueNoGuard(attrValues) ==
    IF Nullish(attrValues) THEN ThrownTypeError
    ELSE IF Len(attrValues.a) = 0 THEN Returned(EmptyStr)
    ELSE IF Len(attrValues.a) > 1
    THEN Returned(StrVal(JoinValues([i \in 1..Len(attrValues.a) |->
                                        flattenSingleValue(attrValues.a[i])],
                                    <<",", " ">>)))
    ELSE Returned(flattenSingleValue(attrValues.a[1]))

flattenValue(attrValues) ==
    IF ~IsTruthy(attrValues) THEN Returned(EmptyStr)
    ELSE IF Len(attrValues.a) = 0 THEN Returned(EmptyStr)
    ELSE IF Len(attrValues.a) > 1
    THEN Returned(StrVal(JoinValues([i \in 1..Len(attrValues.a) |->
                                        flattenSingleValue(attrValues.a[i])],
                                    <<",", " ">>)))
    ELSE Returned(flattenSingleValue(attrValues.a[1]))

EmptyObject == ObjVal([k \in {} |-> UndefVal])

flattenRecord(record) ==
    LET id      == Field(record, "id")
        values  == Or(Field(record, "values"), EmptyObject)
        web_url == Field(record, "web_url")
        keys    == {"id", "created_at"}
                     \cup (IF IsTruthy(web_url) THEN {"web_url"} ELSE {})
                     \cup DOMAIN values.o
    IN IF \E key \in DOMAIN values.o : ~flattenValue(values.o[key]).ok
          THEN ThrownTypeError
          ELSE Returned(
                 [key \in keys |->
                    IF key \in DOMAIN values.o
                       THEN flattenValue(values.o[key]).v
                    ELSE IF key = "id"
                       THEN Or(OptionalField(id, "record_id"),
                               Or(OptionalField(id, "entry_id"), EmptyStr))
                    ELSE IF key = "created_at"
                       THEN Or(OptionalSlice(Field(record, "created_at"), DateLen),
                               EmptyStr)
                    ELSE web_url])

(***************************************************************************)
(* Inputs of the documented shape: every element has its attribute_type    *)
(* and any subset of its type-specific fields, each present field null or  *)
(* a value of its kind.                                                    *)
(***************************************************************************)
MaxValues == 2

EmptyFcn == [k \in {} |-> UndefVal]

Maybe(vals) == {NullVal} \cup vals

\* objs, and objs with each field of fields left out, null or set
RECURSIVE AddFields(_, _)
AddFields(objs, fields) ==
    IF fields = <<>> THEN objs
    ELSE AddFields(objs \cup {o @@ (fields[1][1] :> v) : o \in objs, v \in fields[1][2]},
                   Tail(fields))

TypedElements(type, fields) ==
    {ObjVal(o) : o \in AddFields({"attribute_type" :> StrVal(type)}, fields)}

Scalars == {StrVal(<<"A", "n", "n">>), EmptyStr, NumVal(0), NumVal(42), TrueVal, FalseVal}

Titled == {EmptyObject, ObjVal("title" :> NullVal), ObjVal("title" :> StrVal(<<"S", "a", "a", "S">>))}

KnownElements ==
    UNION {TypedElements(type, << <<"value", Maybe(Scalars)>> >>) : type \in ValueTypes}
    \cup TypedElements(<<"c", "u", "r", "r", "e", "n", "c", "y">>,
            << <<"currency_value", Maybe({NumVal(0), NumVal(42)})>>,
               <<"value", Maybe({NumVal(7)})>> >>)
    \cup TypedElements(<<"p", "e", "r", "s", "o", "n", "a", "l", "-", "n", "a", "m", "e">>,
            << <<"full_name", Maybe({EmptyStr, StrVal(<<"A", "n", "n", " ", "L", "e", "e">>)})>>,
               <<"first_name", Maybe({EmptyStr, StrVal(<<"A", "n", "n">>)})>>,
               <<"last_name", Maybe({EmptyStr, StrVal(<<"L", "e", "e">>)})>> >>)
    \cup TypedElements(<<"e", "m", "a", "i", "l", "-", "a", "d", "d", "r", "e", "s", "s">>,
            << <<"email_address", Maybe({StrVal(<<"a", "@", "b", ".", "c">>)})>>,
               <<"original_email_address", Maybe({StrVal(<<"A", "@", "b", ".", "c">>)})>> >>)
    \cup TypedElements(<<"p", "h", "o", "n", "e", "-", "n", "u", "m", "b", "e", "r">>,
            << <<"original_phone_number", Maybe({StrVal(<<"5", "5", "5">>)})>>,
               <<"phone_number", Maybe({StrVal(<<"+", "1", "5", "5", "5">>)})>> >>)
    \cup TypedElements(<<"d", "o", "m", "a", "i", "n">>, << <<"domain", Maybe({StrVal(<<"b", ".", "c">>)})>> >>)
    \cup TypedElements(<<"s", "e", "l", "e", "c", "t">>, << <<"option", Maybe(Titled)>> >>)
    \cup TypedElements(<<"s", "t", "a", "t", "u", "s">>, << <<"status", Maybe(Titled)>> >>)
    \cup TypedElements(<<"l", "o", "c", "a", "t", "i", "o", "n">>,
            << <<"locality", Maybe({StrVal(<<"O", "s", "l", "o">>)})>>,
               <<"region", Maybe({StrVal(<<"E", "a", "s", "t">>)})>>,
               <<"country_code", Maybe({StrVal(<<"N", "O">>)})>> >>)
    \cup TypedElements(<<"r", "e", "c", "o", "r", "d", "-", "r", "e", "f", "e", "r", "e", "n", "c", "e">>,
            << <<"target_object", Maybe({StrVal(<<"p", "e", "o", "p", "l", "e">>)})>>,
               <<"target_record_id", Maybe({StrVal(<<"r", "1">>)})>> >>)
    \cup TypedElements(<<"a", "c", "t", "o", "r", "-", "r", "e", "f", "e", "r", "e", "n", "c", "e">>,
            << <<"referenced_actor_id", Maybe({StrVal(<<"m", "1">>)})>> >>)
    \cup TypedElements(<<"i", "n", "t", "e", "r", "a", "c", "t", "i", "o", "n">>,
            << <<"interaction_type", Maybe({StrVal(<<"e", "m", "a", "i", "l">>)})>>,
               <<"interacted_at", Maybe({StrVal(<<"2", "0", "2", "4", "-", "0", "1", "-", "1", "5", "T", "0", "9", ":", "3", "0", ":", "0", "0", "Z">>)})>> >>)

\* elements of a type the flattener does not know, or of no type at all
UnknownElements ==
    {ObjVal(o) : o \in AddFields({"attribute_type" :> StrVal(<<"f", "u", "t", "u", "r", "e">>), EmptyFcn},
                                 << <<"value", Maybe({StrVal(<<"v">>), EmptyStr,
                                                      NumVal(0), FalseVal})>>,
                                    <<"title", Maybe({StrVal(<<"T">>)})>> >>)}

Elements == KnownElements \cup UnknownElements \cup {NullVal}

\* the elements of the arrays that have more than one
SomeElements ==
    { ObjVal(("attribute_type" :> StrVal(<<"t", "e", "x", "t">>)) @@ ("value" :> StrVal(<<"A", "n", "n">>))),
      ObjVal("attribute_type" :> StrVal(<<"t", "e", "x", "t">>)),
      ObjVal(("attribute_type" :> StrVal(<<"s", "e", "l", "e", "c", "t">>))
             @@ ("option" :> ObjVal("title" :> StrVal(<<"S", "a", "a", "S">>)))),
      ObjVal(("attribute_type" :> StrVal(<<"f", "u", "t", "u", "r", "e">>)) @@ ("title" :> StrVal(<<"T">>))),
      ObjVal(("attribute_type" :> StrVal(<<"f", "u", "t", "u", "r", "e">>)) @@ ("value" :> NullVal)),
      NullVal }

FlattenArgs ==
    {UndefVal, NullVal, ArrVal(<<>>)}
    \cup {ArrVal(<<e>>) : e \in Elements}
    \cup {ArrVal(a) : a \in UNION {[1..k -> SomeElements] : k \in 2..MaxValues}}

SomeArrays ==
    { NullVal, ArrVal(<<>>),
      ArrVal(<<ObjVal(("attribute_type" :> StrVal(<<"t", "e", "x", "t">>))
                      @@ ("value" :> StrVal(<<"A", "n", "n">>)))>>),
      ArrVal(<<ObjVal("attribute_type" :> StrVal(<<"d", "o", "m", "a", "i", "n">>)),
               ObjVal(("attribute_type" :> StrVal(<<"f", "u", "t", "u", "r", "e">>)) @@ ("title" :> StrVal(<<"T">>)))>>) }

Records ==
    {ObjVal(o) : o \in AddFields({EmptyFcn},
        << <<"id", Maybe({EmptyObject,
                          ObjVal("record_id" :> StrVal(<<"r", "1">>)),
                          ObjVal("entry_id" :> StrVal(<<"e", "1">>))})>>,
           <<"created_at", Maybe({StrVal(<<"2", "0", "2", "4", "-", "0", "1", "-", "1", "5", "T", "0", "9", ":", "3", "0", ":", "0", "0", "Z">>)})>>,
           <<"web_url", Maybe({StrVal(<<"h", "t", "t", "p", "s", ":", "/", "/", "x">>)})>>,
           <<"values", Maybe({EmptyObject}
                             \cup {ObjVal("name" :> a) : a \in SomeArrays}
                             \cup {ObjVal(("name" :> a) @@ ("tags" :> b)) :
                                      a \in SomeArrays, b \in SomeArrays})>> >>)}

FlatInit ==
    /\ vPc = "idle"
    /\ vArg = UndefVal
    /\ vOut = Returned(EmptyStr)
    /\ vRecord = EmptyObject
    /\ vFlat = Returned(EmptyFcn)

FlattenValue ==
    /\ vPc = "idle"
    /\ UNCHANGED flatRest
    /\ \E attrValues \in FlattenArgs :
          /\ vArg' = attrValues
          /\ vOut' = flattenValue(attrValues)
          /\ vPc' = "value"
          /\ UNCHANGED <<vRecord, vFlat>>

FlattenRecord ==
    /\ vPc = "idle"
    /\ UNCHANGED flatRest
    /\ \E record \in Records :
          /\ vRecord' = record
          /\ vFlat' = flattenRecord(record)
          /\ vPc' = "record"
          /\ UNCHANGED <<vArg, vOut>>

FlatNext ==
    \/ FlattenValue
    \/ FlattenRecord

(***************************************************************************)
(* --set parsing (src/values.ts:52-111).  Objects built here are keyed by  *)
(* the text of the key.                                                    *)
(***************************************************************************)
ThrownSyntaxError == [ok |-> FALSE, error |-> "SyntaxError"]

AllDigits(s) == s # <<>> /\ \A i \in 1..Len(s) : s[i] \in Digits

\* Number(s) for a text -?digits(.digits)?: an integer is NumVal(n), a
\* fraction is its digits n with e of them after the point
RECURSIVE StripZeros(_)
StripZeros(s) ==
    IF s # <<>> /\ s[Len(s)] = "0" THEN StripZeros(SubSeq(s, 1, Len(s) - 1)) ELSE s

DecimalNumber(s) ==
    LET neg  == StartsWith(s, <<"-">>)
        u    == IF neg THEN Tail(s) ELSE s
        d    == IndexOf(u, <<".">>)
        int  == IF d = -1 THEN u ELSE Slice(u, 0, d)
        frac == IF d = -1 THEN <<>> ELSE StripZeros(Slice(u, d + 1, Len(u)))
        m    == DecimalVal(int \o frac)
        n    == IF neg THEN -m ELSE m
    IN IF frac = <<>> THEN NumVal(n)
       ELSE [t |-> "number", s |-> <<>>, n |-> n, e |-> Len(frac)]

(***************************************************************************)
(* JSON.parse.  The texts of the model hold no backslash, no control       *)
(* character and no exponent; their only white space is the blank.         *)
(***************************************************************************)
JsonFail == [ok |-> FALSE, v |-> NullVal, next |-> 0]

\* first position from i on that holds no blank
RECURSIVE SkipBlanks(_, _)
SkipBlanks(s, i) ==
    IF i <= Len(s) /\ s[i] = " " THEN SkipBlanks(s, i + 1) ELSE i

\* first position from i on that holds c, Len(s) + 1 when there is none
RECURSIVE Find(_, _, _)
Find(s, c, i) ==
    IF i > Len(s) \/ s[i] = c THEN i ELSE Find(s, c, i + 1)

\* end of the run of number characters that starts at i
RECURSIVE NumberEnd(_, _)
NumberEnd(s, i) ==
    IF i <= Len(s) /\ s[i] \in Digits \cup {"-", "."} THEN NumberEnd(s, i + 1) ELSE i

\* the JSON number grammar without exponent: no leading zero, no bare point
IsJsonNumber(s) ==
    LET u   == IF StartsWith(s, <<"-">>) THEN Tail(s) ELSE s
        d   == IndexOf(u, <<".">>)
        int == IF d = -1 THEN u ELSE Slice(u, 0, d)
    IN /\ AllDigits(int)
       /\ (Len(int) > 1 => int[1] # "0")
       /\ (d # -1 => AllDigits(Slice(u, d + 1, Len(u))))

RECURSIVE JsonValueAt(_, _)
RECURSIVE JsonElementsAt(_, _, _)

\* the JSON value that starts at position i of s and where it ends
JsonValueAt(s, i) ==
    IF i > Len(s) THEN JsonFail
    ELSE IF s[i] = "\""
    THEN LET j == Find(s, "\"", i + 1)
         IN IF j > Len(s) THEN JsonFail
            ELSE [ok |-> TRUE, v |-> StrVal(SubSeq(s, i + 1, j - 1)), next |-> j + 1]
    ELSE IF s[i] = "["
    THEN LET j == SkipBlanks(s, i + 1)
         IN IF j <= Len(s) /\ s[j] = "]"
            THEN [ok |-> TRUE, v |-> ArrVal(<<>>), next |-> j + 1]
            ELSE JsonElementsAt(s, j, <<>>)
    ELSE IF s[i] \in Digits \cup {"-"}
    THEN LET j   == NumberEnd(s, i)
             num == SubSeq(s, i, j - 1)
         IN IF IsJsonNumber(num)
            THEN [ok |-> TRUE, v |-> DecimalNumber(num), next |-> j]
            ELSE JsonFail
    ELSE IF MatchesAt(s, <<"t", "r", "u", "e">>, i - 1)
    THEN [ok |-> TRUE, v |-> TrueVal, next |-> i + 4]
    ELSE IF MatchesAt(s, <<"f", "a", "l", "s", "e">>, i - 1)
    THEN [ok |-> TRUE, v |-> FalseVal, next |-> i + 5]
    ELSE IF MatchesAt(s, <<"n", "u", "l", "l">>, i - 1)
    THEN [ok |-> TRUE, v |-> NullVal, next |-> i + 4]
    ELSE JsonFail

\* the elements of an array from position i on, after the elements acc
JsonElementsAt(s, i, acc) ==
    LET r == JsonValueAt(s, i)
        j == SkipBlanks(s, r.next)
    IN IF ~r.ok \/ j > Len(s) THEN JsonFail
       ELSE IF s[j] = ","
       THEN JsonElementsAt(s, SkipBlanks(s, j + 1), Append(acc, r.v))
       ELSE IF s[j] = "]"
       THEN [ok |-> TRUE, v |-> ArrVal(Append(acc, r.v)), next |-> j + 1]
       ELSE JsonFail

\* JSON.parse: the objects of the model are listed, every other text is
\* read by the grammar
JsonParse(text) ==
    LET t == Trim(text)
        r == JsonValueAt(text, SkipBlanks(text, 1))
    IN CASE t = <<"{", "}">> -> Returned(EmptyObject)
         [] t = <<"{", "\"", "a", "\"", ":", "1", "}">> ->
                Returned(ObjVal(<<"a">> :> NumVal(1)))
         [] t = <<"{", "\"", "e", "\"", ":", "5", "}">> ->
                Returned(ObjVal(<<"e">> :> NumVal(5)))
         [] StartsWith(t, <<"{">>) -> ThrownSyntaxError
         [] OTHER ->
                IF r.ok /\ SkipBlanks(text, r.next) = Len(text) + 1
                THEN Returned(r.v) ELSE ThrownSyntaxError

stripWrappingQuotes(raw) ==
    IF \/ StartsWith(raw, <<"\"">>) /\ EndsWith(raw, <<"\"">>)
       \/ StartsWith(raw, <<"'">>) /\ EndsWith(raw, <<"'">>)
    THEN Slice(raw, 1, Len(raw) - 1)
    ELSE raw

\* /^-?\d+(\.\d+)?$/
IsNumeric(s) ==
    LET u == IF StartsWith(s, <<"-">>) THEN Tail(s) ELSE s
        d == IndexOf(u, <<".">>)
    IN IF d = -1 THEN AllDigits(u)
       ELSE AllDigits(Slice(u, 0, d)) /\ AllDigits(Slice(u, d + 1, Len(u)))

parseScalar(raw) ==
    LET normalized == stripWrappingQuotes(Trim(raw))
    IN CASE normalized = <<"t", "r", "u", "e">>  -> TrueVal
         [] normalized = <<"f", "a", "l", "s", "e">> -> FalseVal
         [] normalized = <<"n", "u", "l", "l">>  -> NullVal
         [] IsNumeric(normalized)  -> DecimalNumber(normalized)
         [] OTHER                  -> StrVal(normalized)

SetError(set) ==
    [ok |-> FALSE,
     error |-> <<"Invalid --set format: \"", set, "\". Expected: key=value">>]

\* the value one pair assigns (lines 79-108)
\* mutant: a bracketed value is always read as shorthand
SetValueNoJson(raw) ==
    IF StartsWith(raw, <<"{">>) /\ EndsWith(raw, <<"}">>) /\ JsonParse(raw).ok
    THEN JsonParse(raw).v
    ELSE IF StartsWith(raw, <<"[">>) /\ EndsWith(raw, <<"]">>)
    THEN LET inner == Trim(Slice(raw, 1, Len(raw) - 1))
             parts == Split(inner, <<",">>)
         IN IF inner = <<>> THEN ArrVal(<<>>)
            ELSE ArrVal([i \in 1..Len(parts) |-> parseScalar(parts[i])])
    ELSE parseScalar(raw)

SetValue(raw) ==
    IF StartsWith(raw, <<"{">>) /\ EndsWith(raw, <<"}">>) /\ JsonParse(raw).ok
    THEN JsonParse(raw).v
    ELSE IF StartsWith(raw, <<"[">>) /\ EndsWith(raw, <<"]">>)
    THEN IF JsonParse(raw).ok /\ JsonParse(raw).v.t = "array"
         THEN JsonParse(raw).v
         ELSE LET inner == Trim(Slice(raw, 1, Len(raw) - 1))
                  parts == Split(inner, <<",">>)
              IN IF inner = <<>> THEN ArrVal(<<>>)
                 ELSE ArrVal([i \in 1..Len(parts) |-> parseScalar(parts[i])])
    ELSE parseScalar(raw)

\* the loop of parseSets from the i-th pair on, with `values` so far
RECURSIVE ParseSetsFrom(_, _, _)
ParseSetsFrom(sets, i, values) ==
    IF i > Len(sets) THEN Returned(ObjVal(values))
    ELSE LET set   == sets[i]
             eqIdx == IndexOf(set, <<"=">>)
         IN IF eqIdx = -1 THEN SetError(set)
            ELSE LET key == Trim(Slice(set, 0, eqIdx))
                     raw == Trim(Slice(set, eqIdx + 1, Len(set)))
                 IN ParseSetsFrom(sets, i + 1,
                        [k \in DOMAIN values \cup {key} |->
                            IF k = key THEN SetValue(raw) ELSE values[k]])

parseSets(sets) == ParseSetsFrom(sets, 1, EmptyFcn)

(***************************************************************************)
(* resolveValues (src/values.ts:113-136).                                  *)
(***************************************************************************)
MaxSets == 2

\* the files readFileSync finds
Files == <<"f">> :> <<"{", "\"", "a", "\"", ":", "1", "}">>

ThrownENOENT == [ok |-> FALSE, error |-> "ENOENT"]

\* JSON.parse(readFileSync(path, 'utf-8'))
ParseFile(path) ==
    IF path \in DOMAIN Files THEN JsonParse(Files[path]) ELSE ThrownENOENT

\* mutant: any --values text, the empty one too, counts as given
ValuesGivenAnyText(options) == options.values # {}

\* line 123: `options.values` is neither undefined nor the empty text
ValuesGiven(options) == options.values # {} /\ options.values # {<<>>}

\* line 130
SetsGiven(options) ==
    options.set # {} /\ \A sets \in options.set : Len(sets) > 0

\* what the call returns or throws, and what it touched on the way
resolveValues(options, stdin) ==
    IF ValuesGiven(options)
    THEN LET values == CHOOSE v \in options.values : TRUE
         IN IF StartsWith(values, <<"@">>)
            THEN [out |-> ParseFile(Slice(values, 1, Len(values))),
                  readFile |-> {Slice(values, 1, Len(values))},
                  parsedSets |-> FALSE, readStdin |-> "no"]
            ELSE [out |-> JsonParse(values),
                  readFile |-> {}, parsedSets |-> FALSE, readStdin |-> "no"]
    ELSE IF SetsGiven(options)
    THEN [out |-> parseSets(CHOOSE sets \in options.set : TRUE),
          readFile |-> {}, parsedSets |-> TRUE, readStdin |-> "no"]
    ELSE LET text == IF stdin.isTTY THEN <<>> ELSE stdin.data
         IN [out |-> IF Trim(text) # <<>> THEN JsonParse(text)
                                         ELSE Returned(EmptyObject),
             readFile |-> {}, parsedSets |-> FALSE,
             readStdin |-> IF stdin.isTTY THEN "called" ELSE "consumed"]

ValuesTexts == {<<>>, <<"{", "\"", "a", "\"", ":", "1", "}">>, <<"{", "}">>, <<"@", "f">>, <<"@", "g">>, <<"{", "b", "a", "d">>}

SetPairs == {<<"b", "=", "2">>, <<"c", "=", "x">>, <<" ", "d", " ", "=", " ", "[", "x", ",", "2", "]", " ">>, <<"n", "o", "e", "q">>}

SetLists == UNION {[1..k -> SetPairs] : k \in 0..MaxSets}

StdinTexts == {<<>>, <<" ">>, <<"{", "\"", "e", "\"", ":", "5", "}">>, <<"{", "b", "a", "d">>}

ResInit ==
    /\ rPc = "idle"
    /\ rOpts = [values |-> {}, set |-> {}]
    /\ rStdin = [isTTY |-> TRUE, data |-> <<>>]
    /\ rOut = Returned(EmptyObject)
    /\ rReadFile = {}
    /\ rParsedSets = FALSE
    /\ rReadStdin = "no"

ResolveValues ==
    /\ rPc = "idle"
    /\ UNCHANGED resRest
    /\ \E values \in {{}} \cup {{v} : v \in ValuesTexts},
          set \in {{}} \cup {{l} : l \in SetLists},
          isTTY \in BOOLEAN,
          data \in StdinTexts :
          LET options == [values |-> values, set |-> set]
              stdin   == [isTTY |-> isTTY, data |-> data]
              call    == resolveValues(options, stdin)
          IN /\ rOpts' = options
             /\ rStdin' = stdin
             /\ rOut' = call.out
             /\ rReadFile' = call.readFile
             /\ rParsedSets' = call.parsedSets
             /\ rReadStdin' = call.readStdin
             /\ rPc' = "done"

ResNext == ResolveValues

(***************************************************************************)
(* parseSets on one pair: a bracketed value, or a scalar token.            *)
(***************************************************************************)
MaxInnerLen == 4

ArrChars == {"a", "2", ",", "\"", " ", "[", "]"}

\* what stands between the brackets: every short text over ArrChars, and
\* the values of tests/recordings.test.ts:64-78
ArrayInners ==
    Str(MaxInnerLen, ArrChars)
    \cup {<<"\"", "a", "c", "m", "e", ".", "c", "o", "m", "\"", ",", "\"", "e", "x", "a", "m", "p", "l", "e", ".", "c", "o", "m", "\"">>, <<"a", "l", "p", "h", "a", ",", "2", ",", "t", "r", "u", "e">>, <<"'", "a", "'", ",", " ", "\"", "2", "\"", " ", ",", "n", "u", "l", "l">>}

ScalarWords ==
    {<<"t", "r", "u", "e">>, <<"f", "a", "l", "s", "e">>, <<"n", "u", "l", "l">>, <<"4", "2">>, <<"-", "1", ".", "5">>, <<"0", "0", "7">>, <<"a", "b", "c">>,
     <<>>, <<"4", " ", "2">>, <<"1", "e", "5">>, <<"T", "r", "u", "e">>, <<".">>}

\* a word as it is, in double or single quotes, in mismatched quotes, with
\* blanks outside or inside the quotes
ScalarTokens ==
    UNION {{w, <<"\"">> \o w \o <<"\"">>, <<"'">> \o w \o <<"'">>, <<"\"">> \o w \o <<"'">>,
            <<" ", "'">> \o w \o <<"'", " ">>, <<"\"", " ">> \o w \o <<" ", "\"">>} : w \in ScalarWords}

SetInit ==
    /\ tPc = "idle"
    /\ tSets = <<>>
    /\ tOut = Returned(EmptyObject)

ParseSetsArray ==
    /\ tPc = "idle"
    /\ UNCHANGED setRest
    /\ \E inner \in ArrayInners :
          LET sets == << <<"t", "a", "g", "s", "=", "[">> \o inner \o <<"]">> >>
          IN /\ tSets' = sets
             /\ tOut' = parseSets(sets)
             /\ tPc' = "array"

ParseSetsScalar ==
    /\ tPc = "idle"
    /\ UNCHANGED setRest
    /\ \E token \in ScalarTokens :
          LET sets == << <<"k", "=">> \o token >>
          IN /\ tSets' = sets
             /\ tOut' = parseSets(sets)
             /\ tPc' = "scalar"

SetNext ==
    \/ ParseSetsArray
    \/ ParseSetsScalar

(***************************************************************************)
(* requireValues (src/values.ts:138-143) and the commands that write:      *)
(* records create, update, assert and entries create, update.              *)
(***************************************************************************)
NoValuesError ==
    [ok |-> FALSE,
     error |-> "No values provided. Use --set key=value, --values '{\"key\":\"value\"}', or pipe JSON to stdin."]

\* Object.keys(v).length; Object.keys throws on null
KeysLength(v) ==
    CASE v.t = "object" -> Cardinality(DOMAIN v.o)
      [] v.t = "array"  -> Len(v.a)
      [] v.t = "string" -> Len(v.s)
      [] OTHER          -> 0

\* mutant: the guard lets every value through
requireValuesNoCheck(values) == Returned(values)

requireValues(values) ==
    IF Nullish(values) THEN ThrownTypeError
    ELSE IF KeysLength(values) = 0 THEN NoValuesError
    ELSE Returned(values)

\* requireValues(await resolveValues(options))
RequireResolved(resolved) ==
    IF resolved.ok THEN requireValues(resolved.v) ELSE resolved

\* `requireValues(await resolveValues(cmdOpts))`
RequiredValues(options, stdin) ==
    RequireResolved(resolveValues([values |-> options.values, set |-> options.set], stdin).out)

AuthError == [ok |-> FALSE, error |-> "AttioAuthError"]
MatchError == [ok |-> FALSE, error |-> "--match <attribute-slug> is required for assert"]
ApiError == [ok |-> FALSE, error |-> "AttioApiError"]

\* what --values and --set hold on the command line
WriteValues ==
    {{}} \cup {{v} : v \in {<<"{", "}">>, <<"{", "\"", "a", "\"", ":", "1", "}">>, <<"n", "u", "l", "l">>, <<"[", "]">>, <<"{", "b", "a", "d">>}}
WriteSets == {{}, {<<>>}, {<<<<"b", "=", "2">>>>}, {<<<<"n", "o", "e", "q">>>>}}

WriteOptions ==
    [hasKey : BOOLEAN, match : {{}, {"domains"}}, values : WriteValues, set : WriteSets]

WriteStdins ==
    {[isTTY |-> TRUE, data |-> <<>>], [isTTY |-> FALSE, data |-> <<"{", "\"", "e", "\"", ":", "5", "}">>],
     [isTTY |-> FALSE, data |-> <<" ">>], [isTTY |-> FALSE, data |-> <<"{", "}">>]}

\* requireValues(await resolveValues(cmdOpts)) for every input of the
\* write commands
ResolvedFor ==
    [v \in WriteValues, t \in WriteSets, stdin \in WriteStdins |->
        RequiredValues([values |-> v, set |-> t], stdin)]

RecordBody(values) == [data |-> [values |-> values]]

EntryCreateBody(values) ==
    [data |-> [parent_record_id |-> "rec_1", parent_object |-> "companies",
               entry_values |-> values]]

EntryUpdateBody(values) == [data |-> [entry_values |-> values]]

\* the body each command builds from its values
BodyOf(cmd, values) ==
    CASE cmd = "entries create" -> EntryCreateBody(values)
      [] cmd = "entries update" -> EntryUpdateBody(values)
      [] OTHER -> RecordBody(values)

\* the request a handler sends once its values are there: none when they
\* are missing or no key is configured
SentBy(cmd, method, path, options, resp, values) ==
    IF values.ok /\ options.hasKey
    THEN <<[method |-> method, path |-> path, body |-> BodyOf(cmd, values.v)]>>
    ELSE <<>>

\* the error a handler ends with
ErrorOf(options, resp, values) ==
    IF ~values.ok THEN {values}
    ELSE IF ~options.hasKey THEN {AuthError}
    ELSE IF resp = "ok" THEN {} ELSE {ApiError}

\* a handler that resolves its values and then sends one request
WriteCommand(cmd, method, path, options, stdin, resp) ==
    /\ wPc = "idle"
    /\ wPc' = "done"
    /\ wCmd' = cmd
    /\ wOpts' = options
    /\ wStdin' = stdin
    /\ wSent' = SentBy(cmd, method, path, options, resp,
                       ResolvedFor[options.values, options.set, stdin])
    /\ wError' = ErrorOf(options, resp, ResolvedFor[options.values, options.set, stdin])

Outcomes == {"ok", "error"}

WriteInit ==
    /\ wPc = "idle"
    /\ wCmd = ""
    /\ wOpts = [hasKey |-> FALSE, match |-> {}, values |-> {}, set |-> {}]
    /\ wStdin = [isTTY |-> TRUE, data |-> <<>>]
    /\ wSent = <<>>
    /\ wError = {}

CreateRecord ==
    /\ wPc = "idle"
    /\ UNCHANGED writeRest
    /\ \E options \in WriteOptions, stdin \in WriteStdins, resp \in Outcomes :
          WriteCommand("records create", "POST",
                       <<"/objects/", "companies", "/records">>,
                       options, stdin, resp)

UpdateRecord ==
    /\ wPc = "idle"
    /\ UNCHANGED writeRest
    /\ \E options \in WriteOptions, stdin \in WriteStdins, resp \in Outcomes :
          WriteCommand("records update", "PATCH",
                       <<"/objects/", "companies", "/records/", "rec_1">>,
                       options, stdin, resp)

\* the --match test comes before the values are resolved
AssertRecord ==
    /\ wPc = "idle"
    /\ UNCHANGED writeRest
    /\ \E options \in WriteOptions, stdin \in WriteStdins, resp \in Outcomes :
          IF options.match = {}
          THEN /\ wPc' = "done"
               /\ wCmd' = "records assert"
               /\ wOpts' = options
               /\ wStdin' = stdin
               /\ wSent' = <<>>
               /\ wError' = {MatchError}
          ELSE WriteCommand("records assert", "PUT",
                            <<"/objects/", "companies", "/records?matching_attribute=">>
                               \o <<CHOOSE m \in options.match : TRUE>>,
                            options, stdin, resp)

CreateEntry ==
    /\ wPc = "idle"
    /\ UNCHANGED writeRest
    /\ \E options \in WriteOptions, stdin \in WriteStdins, resp \in Outcomes :
          WriteCommand("entries create", "POST",
                       <<"/lists/", "my_list", "/entries">>,
                       options, stdin, resp)

UpdateEntry ==
    /\ wPc = "idle"
    /\ UNCHANGED writeRest
    /\ \E options \in WriteOptions, stdin \in WriteStdins, resp \in Outcomes :
          WriteCommand("entries update", "PATCH",
                       <<"/lists/", "my_list", "/entries/", "ent_1">>,
                       options, stdin, resp)

WriteNext ==
    \/ CreateRecord
    \/ UpdateRecord
    \/ AssertRecord
    \/ CreateEntry
    \/ UpdateEntry

(***************************************************************************)
(* Quiet output (src/output.ts:23-30 and 73-78).  An id object keeps the   *)
(* order of its keys: it is the sequence of its [k, v] pairs.              *)
(***************************************************************************)
MaxItems == 2

IdObject(pairs) == [t |-> "object", s |-> <<>>, n |-> 0, pairs |-> pairs]

\* Object.values(raw)[0]
FirstValue(raw) == IF raw.pairs = <<>> THEN UndefVal ELSE raw.pairs[1].v

\* typeof raw === 'object' && raw !== null ? Object.values(raw)[0] : raw
QuietId(raw) == IF raw.t = "object" THEN FirstValue(raw) ELSE raw

\* item[idField] || '' of an item, a string item being its own id
RawId(item) ==
    IF item.t = "string" THEN item ELSE Or(item.id, EmptyStr)

WorkspacePair == [k |-> "workspace_id", v |-> StrVal(<<"w", "s", "_", "1">>)]

ResourcePairs ==
    {[k |-> "task_id", v |-> StrVal(<<"t", "s", "k", "_", "1">>)],
     [k |-> "note_id", v |-> StrVal(<<"n", "t", "e", "_", "1">>)],
     [k |-> "record_id", v |-> StrVal(<<"r", "e", "c", "_", "1">>)]}

IdValues ==
    {UndefVal, NullVal, StrVal(<<"a", "t", "t", "_", "1">>), IdObject(<<>>), IdObject(<<WorkspacePair>>)}
    \cup {IdObject(<<r>>) : r \in ResourcePairs}
    \cup {IdObject(<<WorkspacePair, r>>) : r \in ResourcePairs}
    \cup {IdObject(<<r, WorkspacePair>>) : r \in ResourcePairs}

\* items are objects with an id, or plain strings
OutputItems ==
    {[t |-> "item", id |-> id] : id \in IdValues} \cup {StrVal(<<"s", "l", "u", "g">>)}

OutInit ==
    /\ oPc = "idle"
    /\ oItems = <<>>
    /\ oLog = <<>>

\* outputSingle(item, {format: 'quiet'}): one line, empty when there is no id
OutputSingleQuiet ==
    /\ oPc = "idle"
    /\ UNCHANGED outRest
    /\ \E item \in OutputItems \ {StrVal(<<"s", "l", "u", "g">>)} :
          LET id == QuietId(Or(item.id, EmptyStr))
          IN /\ oItems' = <<item>>
             /\ oLog' = <<String(Or(id, EmptyStr))>>
             /\ oPc' = "single"

\* the lines outputList prints for items, in order
RECURSIVE QuietLines(_)
QuietLines(items) ==
    IF items = <<>> THEN <<>>
    ELSE LET id == QuietId(RawId(items[1]))
         IN (IF IsTruthy(id) THEN <<String(id)>> ELSE <<>>) \o QuietLines(Tail(items))

OutputListQuiet ==
    /\ oPc = "idle"
    /\ UNCHANGED outRest
    /\ \E items \in UNION {[1..k -> OutputItems] : k \in 0..MaxItems} :
          /\ oItems' = items
          /\ oLog' = QuietLines(items)
          /\ oPc' = "list"

OutNext ==
    \/ OutputSingleQuiet
    \/ OutputListQuiet

(***************************************************************************)
(* The list commands (records list, entries list): the choice between      *)
(* --filter-json and --filter, and the body of the first query.            *)
(***************************************************************************)
\* --filter-json: not given, or the text given
FilterJsons ==
    { [given |-> FALSE, text |-> <<>>],
      [given |-> TRUE, text |-> <<"{", "\"", "a", "\"", ":", "1", "}">>],
      [given |-> TRUE, text |-> <<"{", "}">>],
      [given |-> TRUE, text |-> <<"[", "2", "]">>],
      [given |-> TRUE, text |-> <<"{", "a">>],
      [given |-> TRUE, text |-> <<>>] }

\* the filter of --filter-json as the body carries it
RawFilter(v) == [ok |-> TRUE, shape |-> "raw", value |-> v]

\* the thrown SyntaxError of JSON.parse as the list command lets it escape
JsonSyntaxError == [ok |-> FALSE, message |-> <<"SyntaxError">>]

\* lines 44-50 with the filter parser run before --filter-json is looked at
ChooseFilterParsesFirst(filterJson, filters) ==
    LET parsed == MapParse(filters, <<>>)
    IN  IF Len(filters) > 0 /\ ~parsed.ok
        THEN [ok |-> FALSE, error |-> parsed.error]
        ELSE IF filterJson.given /\ filterJson.text # <<>>
        THEN LET j == JsonParse(filterJson.text)
             IN  IF j.ok THEN [ok |-> TRUE, filter |-> {RawFilter(j.v)}]
                 ELSE [ok |-> FALSE, error |-> JsonSyntaxError]
        ELSE IF Len(filters) > 0
        THEN [ok |-> TRUE, filter |-> {combineFilters(parsed.frags)}]
        ELSE [ok |-> TRUE, filter |-> {}]

\* lines 44-50 of listRecords, 39-45 of entries list: `let filter; if
\* (cmdOpts.filterJson) ... else if (cmdOpts.filter && cmdOpts.filter.length > 0)`
ChooseFilter(filterJson, filters) ==
    IF filterJson.given /\ filterJson.text # <<>>
    THEN LET j == JsonParse(filterJson.text)
         IN  IF j.ok THEN [ok |-> TRUE, filter |-> {RawFilter(j.v)}]
             ELSE [ok |-> FALSE, error |-> JsonSyntaxError]
    ELSE IF Len(filters) > 0
    THEN LET parsed == MapParse(filters, <<>>)
         IN  IF parsed.ok
             THEN [ok |-> TRUE, filter |-> {combineFilters(parsed.frags)}]
             ELSE [ok |-> FALSE, error |-> parsed.error]
    ELSE [ok |-> TRUE, filter |-> {}]

\* fetchPage: `if (filter && Object.keys(filter).length > 0) body.filter = filter`
BodyHasFilter(filter) ==
    IF filter.shape = "raw"
    THEN IsTruthy(filter.value) /\ KeysLength(filter.value) > 0
    ELSE KeyCount(filter) > 0

\* listRecords (records.ts:40-75) and entries list (entries.ts:26-70) up to
\* the first POST of fetchPage
ListRecords ==
    /\ fPc = "idle"
    /\ UNCHANGED filterRest
    /\ \E filterJson \in FilterJsons, filters \in FilterLists :
          LET chosen == ChooseFilter(filterJson, filters)
          IN  /\ fPc' = "listed"
              /\ lOpts' = [filterJson |-> filterJson, filter |-> filters]
              /\ IF chosen.ok
                 THEN /\ lFilter' = chosen.filter
                      /\ lError' = {}
                      /\ lBody' = IF chosen.filter = {}
                                  THEN <<[hasFilter |-> FALSE,
                                          filter |-> [ok |-> TRUE, shape |-> "empty"]]>>
                                  ELSE LET filter == CHOOSE f \in chosen.filter : TRUE
                                       IN  <<[hasFilter |-> BodyHasFilter(filter),
                                              filter |-> filter]>>
                 ELSE /\ lError' = {chosen.error}
                      /\ UNCHANGED <<lFilter, lBody>>
              /\ UNCHANGED <<fExpr, fFrag, fFrags, fCombined>>

FilterNext ==
    \/ ParseFilterFlag
    \/ CombineFilters
    \/ ListRecords


(***************************************************************************)
(* The delete commands: records, entries, webhooks, notes, tasks,          *)
(* comments.  Each asks confirm unless --yes, then calls client.delete.    *)
(***************************************************************************)
DeleteCommands ==
    {"records delete", "entries delete", "webhooks delete", "notes delete",
     "tasks delete", "comments delete"}

\* String.prototype.toLowerCase on the letters of the answers
LowerChar(c) ==
    CASE c = "Y" -> "y" [] c = "N" -> "n" [] c = "E" -> "e" [] c = "S" -> "s"
      [] OTHER -> c
ToLowerCase(s) == [i \in 1..Len(s) |-> LowerChar(s[i])]

\* confirm with every answer taken as consent
confirmAnything(answer) == TRUE

\* output.ts:93-101: `resolve(answer.toLowerCase() === 'y')`
confirm(answer) == ToLowerCase(answer) = <<"y">>

\* lines typed at the `[y/N]` prompt
Answers == {<<"y">>, <<"Y">>, <<"n">>, <<"N">>, <<>>, <<"y", "e", "s">>, <<" ", "y">>, <<"y", "e">>}

\* the question each command puts to confirm
DeleteQuestion(cmd) ==
    CASE cmd = "records delete"  -> "Delete record rec_1 from companies? [y/N] "
      [] cmd = "entries delete"  -> "Delete entry ent_1 from list lst_1? [y/N] "
      [] cmd = "webhooks delete" -> "Delete webhook wh_1? [y/N] "
      [] cmd = "notes delete"    -> "Delete note nte_1? [y/N] "
      [] cmd = "tasks delete"    -> "Delete task tsk_1? [y/N] "
      [] cmd = "comments delete" -> "Delete comment cmt_1? [y/N] "

\* the path each command hands to client.delete
DeletePath(cmd) ==
    CASE cmd = "records delete"  -> "/objects/companies/records/rec_1"
      [] cmd = "entries delete"  -> "/lists/lst_1/entries/ent_1"
      [] cmd = "webhooks delete" -> "/webhooks/wh_1"
      [] cmd = "notes delete"    -> "/notes/nte_1"
      [] cmd = "tasks delete"    -> "/tasks/tsk_1"
      [] cmd = "comments delete" -> "/comments/cmt_1"

\* the line printed after the request succeeded
DeletedLine(cmd) ==
    IF cmd = "entries delete" THEN "Deleted entry ent_1." ELSE "Deleted."

DelInit ==
    /\ dPc = "idle"
    /\ dCmd = "records delete"
    /\ dOpts = [yes |-> FALSE, hasKey |-> FALSE]
    /\ dAnswer = {}
    /\ dLog = <<>>
    /\ dHttp = <<>>
    /\ dError = {}

\* the handler up to its `if (!opts.yes)`: confirm writes its question to
\* stderr and waits, or the handler goes on to the request
DeleteStart ==
    /\ dPc = "idle"
    /\ UNCHANGED delRest
    /\ \E cmd \in DeleteCommands, yes \in BOOLEAN, hasKey \in BOOLEAN :
          /\ dCmd' = cmd
          /\ dOpts' = [yes |-> yes, hasKey |-> hasKey]
          /\ dPc' = IF yes THEN "send" ELSE "prompt"
          /\ dLog' = IF yes THEN dLog ELSE Append(dLog, DeleteQuestion(cmd))
          /\ UNCHANGED <<dAnswer, dHttp, dError>>

\* the callback of rl.question and the `if (!ok)` of the handler
DeleteAnswer ==
    /\ dPc = "prompt"
    /\ UNCHANGED delRest
    /\ \E answer \in Answers :
          /\ dAnswer' = {answer}
          /\ IF confirm(answer)
             THEN dPc' = "send" /\ UNCHANGED dLog
             ELSE dPc' = "done" /\ dLog' = Append(dLog, "Aborted.")
          /\ UNCHANGED <<dCmd, dOpts, dHttp, dError>>

\* `await client.delete(path)` and the line after it; request throws
\* AttioAuthError before any fetch when no key is configured
DeleteSend ==
    /\ dPc = "send"
    /\ UNCHANGED delRest
    /\ dPc' = "done"
    /\ IF ~dOpts.hasKey
       THEN dError' = {AuthError} /\ UNCHANGED <<dHttp, dLog>>
       ELSE \E outcome \in Outcomes :
               /\ dHttp' = Append(dHttp, [method |-> "DELETE", path |-> DeletePath(dCmd)])
               /\ IF outcome = "ok"
                  THEN dLog' = Append(dLog, DeletedLine(dCmd)) /\ UNCHANGED dError
                  ELSE dError' = {ApiError} /\ UNCHANGED dLog
    /\ UNCHANGED <<dCmd, dOpts, dAnswer>>

DelNext ==
    \/ DeleteStart
    \/ DeleteAnswer
    \/ DeleteSend

(***************************************************************************)
(* attio init (src/commands/init.ts:7-112) with setApiKey of config.ts.    *)
(***************************************************************************)
Quotes == {"'", "\""}

\* init.ts:66 `apiKey.trim().replace(/^['"]|['"]$/g, '')`
CleanKey(raw) ==
    LET t == Trim(raw)
        a == IF t # <<>> /\ Head(t) \in Quotes THEN Tail(t) ELSE t
    IN  IF a # <<>> /\ a[Len(a)] \in Quotes THEN SubSeq(a, 1, Len(a) - 1) ELSE a

\* texts given to --api-key or pasted at the prompt
KeyTexts ==
    {<<"k">>, <<" ", "k", " ">>, <<"\"", "k", "\"">>, <<"'", "k">>, <<>>, <<" ">>, <<"\"", "\"">>, <<"k", "2">>}

\* the command-line key: {} when --api-key is absent
FlagKeys == {{}} \cup {{k} : k \in KeyTexts}

\* apiKey of the config file: none, or an older key
StoredKeys == {{}, {<<"o">>}}

\* how the request to /self ends: a body, 204 (client.get resolves to
\* undefined), 401, another failure
SelfOutcomes == {"ok", "nocontent", "401", "error"}

\* config.ts:100-102 isConfigured, resolveApiKey() without a flag
isConfigured(env, stored) == env \/ stored # {}

\* setApiKey without the write
setApiKeyNoSave(stored, key) == stored

\* config.ts:90-94 setApiKey: load, set apiKey, save
setApiKey(stored, key) == {key}

\* lines 66-76: clean the key; exit 1 when nothing is left, else GET /self:
\* the key in the state, the request sent, or the exit
CleanAndVerify(raw) ==
    LET key == CleanKey(raw)
    IN  /\ iKey' = {key}
        /\ IF key = <<>>
           THEN iPc' = "done" /\ iExit' = {1} /\ UNCHANGED iHttp
           ELSE /\ iPc' = "verifying"
                /\ iHttp' = Append(iHttp, [method |-> "GET", path |-> "/self", key |-> key])
                /\ UNCHANGED iExit

IniInit ==
    /\ iPc = "idle"
    /\ iOpts = [apiKey |-> {}, tty |-> FALSE, env |-> FALSE]
    /\ iBefore = {}
    /\ iStored = {}
    /\ iKey = {}
    /\ iHttp = <<>>
    /\ iResp = {}
    /\ iExit = {}

\* the action up to its first prompt, its request or its end (lines 11-76)
InitStart ==
    /\ iPc = "idle"
    /\ UNCHANGED iniRest
    /\ \E apiKey \in FlagKeys, tty \in BOOLEAN, env \in BOOLEAN, stored \in StoredKeys :
          /\ iOpts' = [apiKey |-> apiKey, tty |-> tty, env |-> env]
          /\ iBefore' = stored
          /\ iStored' = stored
          /\ iResp' = {}
          /\ IF apiKey \in {{}, {<<>>}}
             THEN /\ UNCHANGED <<iKey, iHttp>>
                  /\ IF ~tty
                     THEN iPc' = "done" /\ iExit' = {0}
                     ELSE /\ iPc' = IF isConfigured(env, stored) THEN "overwrite" ELSE "paste"
                          /\ UNCHANGED iExit
             ELSE CleanAndVerify(CHOOSE k \in apiKey : TRUE)

\* the answer to `Overwrite? [y/N]` (lines 29-40)
InitOverwrite ==
    /\ iPc = "overwrite"
    /\ UNCHANGED iniRest
    /\ \E answer \in Answers :
          /\ IF ToLowerCase(Trim(answer)) = <<"y">>
             THEN iPc' = "paste" /\ UNCHANGED iExit
             ELSE iPc' = "done" /\ iExit' = {0}
          /\ UNCHANGED <<iOpts, iBefore, iStored, iKey, iHttp, iResp>>

\* `Paste your API key:` (lines 51-62): the promise settles with the line
\* typed, or rejects on 'close' and the catch exits with 0
InitPaste ==
    /\ iPc = "paste"
    /\ UNCHANGED iniRest
    /\ \/ /\ iPc' = "done"
          /\ iExit' = {0}
          /\ UNCHANGED <<iKey, iHttp>>
       \/ \E answer \in KeyTexts : CleanAndVerify(answer)
    /\ UNCHANGED <<iOpts, iBefore, iStored, iResp>>

\* the request to /self came back (lines 74-110)
InitVerified ==
    /\ iPc = "verifying"
    /\ UNCHANGED iniRest
    /\ \E outcome \in SelfOutcomes :
          /\ iResp' = {outcome}
          /\ iPc' = "done"
          /\ IF outcome = "ok"
             THEN /\ iStored' = setApiKey(iStored, CHOOSE k \in iKey : TRUE)
                  /\ iExit' = {0}
             ELSE \* `self.workspace_name` of undefined, or the error of the client
                  /\ iExit' = {1}
                  /\ UNCHANGED iStored
          /\ UNCHANGED <<iOpts, iBefore, iKey, iHttp>>

IniNext ==
    \/ InitStart
    \/ InitOverwrite
    \/ InitPaste
    \/ InitVerified

PagNext ==
    \/ \E limit \in Limits, offset \in Offsets, all \in BOOLEAN :
          PaginateStart(limit, offset, all)
    \/ FetchPageCall
    \/ \E n \in PageLens : FetchPageResolve(n)
    \/ \E err \in Errors : FetchPageReject(err)

Init == PagInit /\ CurInit /\ CliInit /\ ExitInit /\ FilterInit /\ SortInit /\ FlatInit /\ ResInit /\ SetInit /\ WriteInit /\ OutInit /\ DelInit /\ IniInit

PaginateSpec == Init /\ [][PagNext]_vars

CursorSpec == Init /\ [][CurNext]_vars

ClientSpec == Init /\ [][CliNext]_vars

ExitSpec == Init /\ [][ExitNext]_vars

FilterSpec == Init /\ [][FilterNext]_vars

SortSpec == Init /\ [][SortNext]_vars

FlattenSpec == Init /\ [][FlatNext]_vars

ValuesSpec == Init /\ [][ResNext]_vars

InitSpec == Init /\ [][IniNext]_vars

DeleteSpec == Init /\ [][DelNext]_vars

OutputSpec == Init /\ [][OutNext]_vars

WriteSpec == Init /\ [][WriteNext]_vars

SetsSpec == Init /\ [][SetNext]_vars

\* the event loop runs every continuation that is ready, and the stub
\* settles every promise it handed out
PaginateFairSpec ==
    /\ PaginateSpec
    /\ WF_vars(\E limit \in Limits, offset \in Offsets, all \in BOOLEAN :
                  PaginateStart(limit, offset, all))
    /\ WF_vars(FetchPageCall)
    /\ WF_vars(\E n \in PageLens : FetchPageResolve(n))

(***************************************************************************)
(* Properties of paginate.                                                 *)
(***************************************************************************)
\* C1: with all=false paginate calls fetchPage exactly once, with exactly
\* the caller's limit and offset, never issues a second fetch whatever the
\* length of the page, and resolves to that page unchanged.
PaginateSingleFetch ==
    (pPc # "idle" /\ ~pOpts.all) =>
        /\ Len(pCalls) <= 1
        /\ \A i \in 1..Len(pCalls) :
              pCalls[i] = [limit |-> pOpts.limit, offset |-> pOpts.offset]
        /\ pPc = "done" =>
              /\ Len(pCalls) = 1
              /\ Len(pResps) = 1
              /\ pResult = {Page(1, pResps[1].len)}

\* a single-page call at offset 40 got a full page and is done
PaginateSingleFetchWitness ==
    /\ pPc = "done"
    /\ ~pOpts.all
    /\ pOpts.offset = 40
    /\ Len(pCalls) = 1
    /\ pResps[1].len = pageSize

PaginateAllHonoursOffset ==
    (pOpts.all /\ Len(pCalls) >= 1) => pCalls[1].offset = pOpts.offset

\* C4: with all=true paginate always terminates, even when every page is
\* full.
PaginateAllTerminates ==
    (pPc = "calling" /\ pOpts.all) ~> (pPc \in {"done", "failed"})

\* C5: the paginator never retries: a rejected fetchPage call is the last
\* call, paginate rejects with that same error and returns none of the
\* pages accumulated before it.
PaginateNoRetry ==
    \A i \in 1..Len(pResps) :
        ~pResps[i].ok =>
            /\ i = Len(pResps)
            /\ Len(pCalls) = i
            /\ pInFlight = 0
            /\ pPc = "failed"
            /\ pError = {pResps[i].err}
            /\ pResult = {}

\* the third fetch of an --all run rejected after two full pages
PaginateNoRetryWitness ==
    /\ pPc = "failed"
    /\ pOpts.all
    /\ Len(pResps) = 3
    /\ ~pResps[3].ok
    /\ Len(allResults) = 2 * pageSize

\* C6: in --all mode at most one fetchPage call is in flight: call n+1 is
\* started only after call n has settled.
PaginateOneInFlight ==
    pOpts.all =>
        /\ pInFlight <= 1
        /\ Len(pCalls) <= Len(pResps) + 1

\* the third call of an --all run is in flight, the first two have resolved
PaginateOneInFlightWitness ==
    /\ pOpts.all
    /\ Len(pCalls) = 3
    /\ Len(pResps) = 2
    /\ pInFlight = 1

(***************************************************************************)
(* Properties of the cursor loops.                                         *)
(***************************************************************************)
\* C7: with --all the first request carries the caller's --cursor if any,
\* every later request carries exactly the next_cursor of the response
\* before it, the loop stops at the first response whose next_cursor is
\* null or absent, and the result is the concatenation of all pages in
\* request order; without --all exactly one request is made even if the
\* response carries a next_cursor.
CursorPagination ==
    cPc # "idle" =>
        /\ Len(cReqs) >= 1
        /\ cReqs[1].cursor = cOpts.cursor
        /\ \A i \in 1..Len(cReqs) : cReqs[i].endpoint = cOpts.endpoint
        /\ \A i \in 2..Len(cReqs) :
              /\ cOpts.all
              /\ cResps[i - 1].ok
              /\ cResps[i - 1].next.kind = "token"
              /\ cReqs[i].cursor = {cResps[i - 1].next.tok}
        /\ \A i \in 1..Len(cResps) :
              (cResps[i].ok /\ cResps[i].next.kind \in {"null", "absent"}) =>
                  /\ i = Len(cResps)
                  /\ Len(cReqs) = i
                  /\ cPc = "done"
        /\ ~cOpts.all => Len(cReqs) = 1
        /\ cPc = "done" =>
              /\ Len(cResps) = Len(cReqs)
              /\ cOpts.all => cResps[Len(cResps)].next.kind \in {"null", "absent"}
              /\ cResult = {ConcatPages(cResps, Len(cResps))}

\* an --all run started at a caller's cursor followed two next_cursor
\* tokens and stopped at a response without one
CursorPaginationWitness ==
    /\ cPc = "done"
    /\ cOpts.all
    /\ cOpts.cursor = {"cursor_0"}
    /\ Len(cReqs) = 3
    /\ cReqs[2].cursor = {"cursor_1"}
    /\ cReqs[3].cursor = {"cursor_2"}
    /\ cResps[3].next.kind = "absent"
    /\ \E r \in cResult : Len(r) = 5

(***************************************************************************)
(* Properties of AttioClient.request.                                      *)
(***************************************************************************)
LastResp == hResps[Len(hResps)]

TypedErrors == {"AttioApiError", "AttioAuthError", "AttioRateLimitError"}

\* C8: the client retries only on a 429 and at most 3 times: four 429
\* answers in a row mean exactly 4 requests and then AttioRateLimitError;
\* after a non-429 response no further attempt is made.
ClientRetriesOnly429 ==
    /\ Len(hSent) <= 4
    /\ \A i \in 1..Len(hSent) : hSent[i] = i - 1
    /\ \A i \in 2..Len(hSent) : hResps[i - 1].status = 429
    /\ \A i \in 1..Len(hResps) :
          hResps[i].status # 429 =>
              /\ i = Len(hResps)
              /\ Len(hSent) = i
              /\ hPc \in {"done", "failed"}
    /\ (Len(hResps) = 4 /\ hResps[4].status = 429) =>
          /\ hPc = "failed"
          /\ Len(hSent) = 4
          /\ \A e \in hError : e.name = "AttioRateLimitError"
          /\ hError # {}
    /\ \A e \in hError :
          e.name = "AttioRateLimitError" =>
              /\ Len(hResps) = 4
              /\ \A i \in 1..4 : hResps[i].status = 429

\* a server that answered 429 four times: 4 requests, AttioRateLimitError
ClientRetriesOnly429Witness ==
    /\ hPc = "failed"
    /\ Len(hSent) = 4
    /\ Len(hResps) = 4
    /\ \A i \in 1..4 : hResps[i].status = 429
    /\ \E e \in hError : e.name = "AttioRateLimitError"

\* C9: a 401 response makes the client throw AttioAuthError at once,
\* whatever the number of 429 retries before it, and no request follows it.
Client401Immediate ==
    \A i \in 1..Len(hResps) :
        hResps[i].status = 401 =>
            /\ i = Len(hResps)
            /\ Len(hSent) = i
            /\ hPc = "failed"
            /\ hResult = {}
            /\ hError = {Err("AttioAuthError", 0, "", <<"Invalid or expired API key">>)}

\* a 401 that answered the third retry
Client401ImmediateWitness ==
    /\ Len(hResps) = 4
    /\ \A i \in 1..3 : hResps[i].status = 429
    /\ hResps[4].status = 401
    /\ hPc = "failed"

\* C10 as stated: a 2xx response {"data": X} resolves to X, a non-2xx
\* response throws a typed error and never resolves, a 204 resolves to no
\* value.
ClientUnwrapsEnvelope ==
    (hPc \in {"done", "failed"} /\ Len(hResps) = Len(hSent) /\ Len(hResps) > 0) =>
        /\ (hPc = "done" /\ LastResp.status = 204) => hResult = {Undefined}
        /\ (Ok(LastResp.status) /\ LastResp.status # 204 /\ LastResp.body.parses
              /\ "data" \in DOMAIN LastResp.body.json) =>
                 /\ hPc = "done"
                 /\ hResult = {LastResp.body.json.data}
        /\ ~Ok(LastResp.status) =>
              /\ hPc = "failed"
              /\ hResult = {}
              /\ \E e \in hError : e.name \in TypedErrors

\* C10, amended: a 2xx response other than 204 with a JSON body resolves to
\* the whole parsed body, the {"data": X} envelope included; a 204 resolves
\* to no value; a non-2xx response never resolves: it throws
\* AttioRateLimitError (429), AttioAuthError (401), AttioApiError carrying
\* the status, type and detail when the body parses as JSON, and the parse
\* error of response.json() when it does not.
ClientResolvesWholeBody ==
    /\ hPc = "done" =>
          /\ Len(hResps) = Len(hSent) /\ Len(hResps) > 0
          /\ Ok(LastResp.status)
          /\ hError = {}
          /\ IF LastResp.status = 204 THEN hResult = {Undefined}
             ELSE /\ LastResp.body.parses
                  /\ hResult = {LastResp.body.json}
    /\ (hPc = "failed" /\ Len(hResps) = Len(hSent) /\ Len(hResps) > 0) =>
          /\ hResult = {}
          /\ \E e \in hError :
                /\ hError = {e}
                /\ CASE LastResp.status = 429 -> e.name = "AttioRateLimitError"
                     [] LastResp.status = 401 -> e.name = "AttioAuthError"
                     [] LastResp.status = 204 -> FALSE
                     [] OTHER ->
                          IF ~LastResp.body.parses THEN e.name = "SyntaxError"
                          ELSE /\ ~Ok(LastResp.status)
                               /\ e.name = "AttioApiError"
                               /\ e.statusCode = LastResp.status
                               /\ e.type = ErrorType(LastResp.body.json)
                               /\ e.detail = ErrorDetail(LastResp.body.json, LastResp.status)
    /\ \A e \in hError :
          (e.name = "AttioApiError" /\ e.statusCode = 400 /\ e.type = "validation_type") =>
              e.detail = <<"Invalid body", " [", "values", ".", "name", ": ", "Required",
                           "; ", "?", ": ", "Unrecognized key", "]">>

\* a POST answered 201 {"data": {"id": "rec_1"}} resolved to the envelope
ClientResolvesWholeBodyWitness ==
    /\ hPc = "done"
    /\ hMethod = "POST"
    /\ LastResp.status = 201
    /\ hResult = {[data |-> [id |-> "rec_1"]]}

(***************************************************************************)
(* Properties of the error handler.                                        *)
(***************************************************************************)
\* C11: an AttioApiError exits with 2 for status 401 or 403, 3 for 404, 4
\* for 400 or 409, 5 for 429 and 1 for every other status; AttioAuthError
\* always exits with 2, AttioRateLimitError always with 5, any other error
\* with 1; no error path exits with 0.
ExitCodeMapping ==
    xPc = "exited" =>
        /\ 0 \notin xExit
        /\ xExit =
             IF xErr.cls = "AttioApiError"
             THEN CASE xErr.statusCode \in {401, 403} -> {2}
                    [] xErr.statusCode = 404 -> {3}
                    [] xErr.statusCode \in {400, 409} -> {4}
                    [] xErr.statusCode = 429 -> {5}
                    [] OTHER -> {1}
             ELSE CASE xErr.cls = "AttioAuthError" -> {2}
                    [] xErr.cls = "AttioRateLimitError" -> {5}
                    [] OTHER -> {1}

\* an AttioApiError for a 409 conflict left the process with code 4
ExitCodeMappingWitness ==
    /\ xPc = "exited"
    /\ xErr = [cls |-> "AttioApiError", statusCode |-> 409]
    /\ xExit = {4}

(***************************************************************************)
(* Properties of the filter parser.                                        *)
(***************************************************************************)
OpChars == {">", "<", "=", "!", "~", "^", "?"}

\* no operator character in s
Plain(s) == \A i \in 1..Len(s) : s[i] \notin OpChars

Contains(s, t) == \E i \in 0..Len(s) : MatchesAt(s, t, i)

\* fExpr is attr, then the token tok at position i, then v, with no
\* operator character in attr or in v
PlainSplit(tok, i) ==
    /\ MatchesAt(fExpr, tok, i)
    /\ Plain(Slice(fExpr, 0, i))
    /\ Plain(Slice(fExpr, i + Len(tok), Len(fExpr)))

AttrAt(i)     == Trim(Slice(fExpr, 0, i))
ValueAt(tok, i) == Trim(Slice(fExpr, i + Len(tok), Len(fExpr)))

\* C12: for the pairs > / >=, < / <=, = / != and ~ / !~, an expression
\* that contains the longer token is never parsed with the shorter
\* operator of the pair, and attr>=v, attr<=v, attr!=v, attr!~v yield
\* {attr: {$gte: v}}, {attr: {$lte: v}}, {$not: {attr: v}} and
\* {$not: {attr: {$contains: v}}}.
LongerOperatorWins ==
    (fPc = "parsed" /\ ~EndsWith(fExpr, <<"?">>)) =>
        /\ Contains(fExpr, <<">", "=">>) =>
              fFrag.ok /\ ~(fFrag.shape = "op" /\ fFrag.op = "$gt")
        /\ Contains(fExpr, <<"<", "=">>) =>
              fFrag.ok /\ ~(fFrag.shape = "op" /\ fFrag.op = "$lt")
        /\ Contains(fExpr, <<"!", "=">>) =>
              fFrag.ok /\ fFrag.shape # "bare"
        /\ Contains(fExpr, <<"!", "~">>) =>
              fFrag.ok /\ ~(fFrag.shape = "op" /\ fFrag.op = "$contains")
        /\ \A i \in 0..Len(fExpr) :
              /\ PlainSplit(<<">", "=">>, i) =>
                    /\ fFrag.ok /\ fFrag.shape = "op" /\ fFrag.op = "$gte"
                    /\ fFrag.attr = AttrAt(i)
                    /\ fFrag.value \in {StrVal(ValueAt(<<">", "=">>, i)),
                                        NumVal(DecimalVal(ValueAt(<<">", "=">>, i)))}
              /\ PlainSplit(<<"<", "=">>, i) =>
                    /\ fFrag.ok /\ fFrag.shape = "op" /\ fFrag.op = "$lte"
                    /\ fFrag.attr = AttrAt(i)
                    /\ fFrag.value \in {StrVal(ValueAt(<<"<", "=">>, i)),
                                        NumVal(DecimalVal(ValueAt(<<"<", "=">>, i)))}
              /\ PlainSplit(<<"!", "=">>, i) =>
                    fFrag = Fragment("not_bare", AttrAt(i), "", StrVal(ValueAt(<<"!", "=">>, i)))
              /\ PlainSplit(<<"!", "~">>, i) =>
                    fFrag = Fragment("not_op", AttrAt(i), "$contains",
                                     StrVal(ValueAt(<<"!", "~">>, i)))

\* a>=5 was parsed to {a: {$gte: 5}}
LongerOperatorWinsWitness ==
    /\ fPc = "parsed"
    /\ fExpr = <<"a", ">", "=", "5">>
    /\ fFrag = Fragment("op", <<"a">>, "$gte", NumVal(5))

\* C13: every expression attr=value, attr without operator character and
\* value any string, parses to the bare {attr: value} with the value kept
\* as a string.
EqualityShorthand ==
    fPc = "parsed" =>
        \A i \in 0..Len(fExpr) :
            (MatchesAt(fExpr, <<"=">>, i) /\ Plain(Slice(fExpr, 0, i)) /\ AttrAt(i) # <<>>) =>
                /\ fFrag.ok
                /\ fFrag.shape = "bare"
                /\ fFrag.attr \in {Slice(fExpr, 0, i), AttrAt(i)}
                /\ fFrag.value \in {StrVal(Slice(fExpr, i + 1, Len(fExpr))),
                                    StrVal(ValueAt(<<"=">>, i))}

\* no token of OPERATORS occurs in s
NoOperatorToken(s) == \A k \in 1..Len(OPERATORS) : ~Contains(s, OPERATORS[k].cli)

\* s does not end with ? and no binary token of OPERATORS occurs in it
NoUsableOperator(s) ==
    /\ ~EndsWith(s, <<"?">>)
    /\ \A k \in 1..Len(OPERATORS) : ~OPERATORS[k].unary => ~Contains(s, OPERATORS[k].cli)

\* C14 as stated: parseFilterFlag fails exactly when the expression
\* contains no operator token.
FilterErrorIffNoOperator ==
    fPc = "parsed" => (~fFrag.ok <=> NoOperatorToken(fExpr))

\* C14, amended: parseFilterFlag fails, with a message made of the
\* offending expression and the expected grammar, exactly when the
\* expression does not end with ? and contains no binary operator token;
\* in a list command the error is raised before any request is sent.
FilterErrorIffNoUsableOperator ==
    /\ fPc = "parsed" =>
          /\ ~fFrag.ok <=> NoUsableOperator(fExpr)
          /\ ~fFrag.ok =>
                fFrag.message = <<"Invalid filter syntax: \"", fExpr,
                                  "\". Expected: attribute<operator>value">>
    /\ fPc = "listed" =>
          /\ (~lOpts.filterJson.given
                /\ \E i \in 1..Len(lOpts.filter) : NoUsableOperator(lOpts.filter[i])) =>
                   /\ lBody = <<>>
                   /\ \E i \in 1..Len(lOpts.filter) :
                         /\ NoUsableOperator(lOpts.filter[i])
                         /\ \A j \in 1..(i - 1) : ~NoUsableOperator(lOpts.filter[j])
                         /\ lError = {[ok |-> FALSE,
                                       message |-> <<"Invalid filter syntax: \"",
                                                     lOpts.filter[i],
                                                     "\". Expected: attribute<operator>value">>]}
          /\ lError # {} => lBody = <<>>

\* a?a holds a ? that is not at the end: it is rejected
FilterErrorIffNoUsableOperatorWitness ==
    /\ fPc = "parsed"
    /\ fExpr = <<"a", "?", "a">>
    /\ ~fFrag.ok

\* the text is a number written in digits
CleanNumber(s) == s # <<>> /\ \A i \in 1..Len(s) : s[i] \in Digits

\* C15: the value is coerced to a number if and only if the operator is
\* one of >, >=, <, <= and the raw text parses cleanly as a number; in every
\* other case, empty and whitespace-only text included, it stays a string.
NumericCoercion ==
    fPc = "parsed" =>
        \A k \in 1..Len(OPERATORS), i \in 0..Len(fExpr) :
            (~OPERATORS[k].unary /\ PlainSplit(OPERATORS[k].cli, i) /\ AttrAt(i) # <<>>) =>
                LET raw == ValueAt(OPERATORS[k].cli, i)
                IN  /\ fFrag.ok
                    /\ fFrag.value =
                         IF OPERATORS[k].cli \in {<<">">>, <<">", "=">>, <<"<">>, <<"<", "=">>}
                              /\ CleanNumber(raw)
                         THEN NumVal(DecimalVal(raw))
                         ELSE StrVal(raw)

\* C16: combineFilters([]) = {}, combineFilters([f]) = f without $and, and
\* two or more fragments give {$and: [f1, ..., fn]} in the order given.
CombineFiltersShape ==
    /\ fPc = "combined" =>
          /\ Len(fFrags) = 0 => fCombined = [ok |-> TRUE, shape |-> "empty"]
          /\ Len(fFrags) = 1 => fCombined = fFrags[1]
          /\ Len(fFrags) >= 2 =>
                /\ fCombined.shape = "and"
                /\ fCombined.items = fFrags
    /\ (fPc = "listed" /\ ~lOpts.filterJson.given
          /\ lOpts.filter = << <<"a", "~", "a">>, <<"a", ">", "=", "5">> >>) =>
             lFilter = {[ok |-> TRUE, shape |-> "and",
                         items |-> << Fragment("op", <<"a">>, "$contains", StrVal(<<"a">>)),
                                      Fragment("op", <<"a">>, "$gte", NumVal(5)) >>]}

\* --filter 'a~a' --filter 'a>=5' was sent as one $and of two fragments
CombineFiltersShapeWitness ==
    /\ fPc = "listed"
    /\ lOpts.filter = << <<"a", "~", "a">>, <<"a", ">", "=", "5">> >>
    /\ Len(lBody) = 1
    /\ lBody[1].hasFilter
    /\ lBody[1].filter.shape = "and"
    /\ Len(lBody[1].filter.items) = 2

(***************************************************************************)
(* C17: parseSort splits the expression at the first `:`; the direction is *)
(* asc whenever the direction part is absent or empty; the part before the *)
(* colon is split on `.` into attribute and optional field, and field is   *)
(* present only when a non-empty sub-field was given.                      *)
(***************************************************************************)
SortAttrPart ==
    LET i == IndexOf(sExpr, <<":">>)
    IN IF i = -1 THEN sExpr ELSE Slice(sExpr, 0, i)

\* the text after the first colon; empty when there is no colon
SortDirPart ==
    LET i == IndexOf(sExpr, <<":">>)
    IN IF i = -1 THEN <<>> ELSE Slice(sExpr, i + 1, Len(sExpr))

\* the text after the first dot of the attribute part
SortSubField ==
    LET j == IndexOf(SortAttrPart, <<".">>)
    IN IF j = -1 THEN <<>> ELSE Slice(SortAttrPart, j + 1, Len(SortAttrPart))

\* C17, checked on the expressions that begin with an attribute name
ParseSortContract ==
    (sPc = "parsed" /\ StartsWith(sExpr, <<"n">>)) =>
        /\ sSort.direction = IF SortDirPart = <<>> THEN Asc ELSE SortDirPart
        /\ LET j == IndexOf(SortAttrPart, <<".">>)
           IN sSort.attribute =
                  IF j = -1 THEN SortAttrPart ELSE Slice(SortAttrPart, 0, j)
        /\ sSort.field # {} => SortSubField # <<>>
        /\ ~Contains(SortSubField, <<".">>) =>
               sSort.field = IF SortSubField = <<>> THEN {} ELSE {SortSubField}

(***************************************************************************)
(* C18: flattenValue and flattenRecord are total: for every input of the   *)
(* documented shape they return a string, respectively a map whose values  *)
(* are all strings, and never throw.                                       *)
(***************************************************************************)
FlattenTotal ==
    /\ vPc = "value" => (vOut.ok /\ vOut.v.t = "string")
    /\ vPc = "record" =>
          /\ vFlat.ok
          /\ \A key \in DOMAIN vFlat.v : vFlat.v[key].t = "string"

\* a record whose id is null, with one null array and one array of two
\* partially populated elements
FlattenTotalWitness ==
    /\ vPc = "record"
    /\ Field(vRecord, "id") = NullVal
    /\ Field(Field(vRecord, "values"), "name") = NullVal
    /\ Field(Field(vRecord, "values"), "tags").t = "array"
    /\ Len(Field(Field(vRecord, "values"), "tags").a) = 2
    /\ vFlat.ok
    /\ vFlat.v["tags"].t = "string"

(***************************************************************************)
(* C19: an element whose attribute_type is not one of the known kinds      *)
(* flattens to its `value` field if present, else to its `title` field if  *)
(* present, else to the JSON serialization of the element; an array of     *)
(* more than one element flattens each element independently and joins the *)
(* results with ", " in array order.  A field is present when it is        *)
(* neither missing nor null.                                               *)
(***************************************************************************)
KnownTypes ==
    ValueTypes \cup
    {<<"c", "u", "r", "r", "e", "n", "c", "y">>, <<"p", "e", "r", "s", "o", "n", "a", "l", "-", "n", "a", "m", "e">>, <<"e", "m", "a", "i", "l", "-", "a", "d", "d", "r", "e", "s", "s">>, <<"p", "h", "o", "n", "e", "-", "n", "u", "m", "b", "e", "r">>,
     <<"d", "o", "m", "a", "i", "n">>, <<"s", "e", "l", "e", "c", "t">>, <<"s", "t", "a", "t", "u", "s">>, <<"l", "o", "c", "a", "t", "i", "o", "n">>, <<"r", "e", "c", "o", "r", "d", "-", "r", "e", "f", "e", "r", "e", "n", "c", "e">>,
     <<"a", "c", "t", "o", "r", "-", "r", "e", "f", "e", "r", "e", "n", "c", "e">>, <<"i", "n", "t", "e", "r", "a", "c", "t", "i", "o", "n">>}

UnknownType(e) ==
    /\ e.t = "object"
    /\ Field(e, "attribute_type").s \notin KnownTypes

UnknownFallbackAndJoin ==
    (vPc = "value" /\ vArg.t = "array") =>
        /\ (Len(vArg.a) = 1 /\ UnknownType(vArg.a[1])) =>
              LET e     == vArg.a[1]
                  value == Field(e, "value")
                  title == Field(e, "title")
              IN vOut = Returned(StrVal(
                     IF ~Nullish(value) THEN String(value)
                     ELSE IF ~Nullish(title) THEN String(title)
                     ELSE JsonStringify(e)))
        /\ Len(vArg.a) > 1 =>
              vOut = Returned(StrVal(JoinStrings(
                         [i \in 1..Len(vArg.a) |-> flattenValue(ArrVal(<<vArg.a[i]>>)).v.s],
                         <<",", " ">>)))

\* a titled element of an unknown type followed by one with a null value
UnknownFallbackAndJoinWitness ==
    /\ vPc = "value"
    /\ vArg = ArrVal(<< ObjVal(("attribute_type" :> StrVal(<<"f", "u", "t", "u", "r", "e">>))
                               @@ ("title" :> StrVal(<<"T">>))),
                        ObjVal(("attribute_type" :> StrVal(<<"f", "u", "t", "u", "r", "e">>))
                               @@ ("value" :> NullVal)) >>)
    /\ vOut = Returned(StrVal(<<"T", ",", " ", "{", "\"", "a", "t", "t", "r", "i", "b", "u", "t", "e", "_", "t", "y", "p", "e", "\"", ":", "\"", "f", "u", "t", "u", "r", "e", "\"", ",", "\"", "v", "a", "l", "u", "e", "\"", ":", "n", "u", "l", "l", "}">>))

(***************************************************************************)
(* C20: resolveValues picks its source by strict precedence: --values (its *)
(* JSON, inline or from the file named after `@`) when given, with neither *)
(* --set nor stdin consulted; otherwise parseSets of the --set pairs when  *)
(* there is at least one, with stdin not read; otherwise non-empty piped   *)
(* stdin parsed as JSON; otherwise the empty object.                       *)
(***************************************************************************)
ValuesText == CHOOSE v \in rOpts.values : TRUE

ValuesJson ==
    IF StartsWith(ValuesText, <<"@">>)
    THEN ParseFile(Slice(ValuesText, 1, Len(ValuesText)))
    ELSE JsonParse(ValuesText)

SomeSetPair == rOpts.set # {} /\ rOpts.set # {<<>>}

SetsList == CHOOSE l \in rOpts.set : TRUE

\* as stated: any --values text is `given`, any piped text that is not the
\* empty text is `non-empty`
ResolvePrecedence ==
    rPc = "done" =>
        IF rOpts.values # {}
        THEN rOut = ValuesJson /\ ~rParsedSets /\ rReadStdin = "no"
        ELSE IF SomeSetPair
        THEN rOut = parseSets(SetsList) /\ rReadStdin = "no"
        ELSE IF ~rStdin.isTTY /\ rStdin.data # <<>>
        THEN rOut = JsonParse(rStdin.data)
        ELSE rOut = Returned(EmptyObject)

\* C20, amended: --values counts when its text is not empty, and piped
\* stdin counts when it holds more than blanks
ResolvePrecedenceNonBlank ==
    rPc = "done" =>
        IF rOpts.values # {} /\ ValuesText # <<>>
        THEN rOut = ValuesJson /\ ~rParsedSets /\ rReadStdin = "no"
        ELSE IF SomeSetPair
        THEN rOut = parseSets(SetsList) /\ rReadStdin = "no"
        ELSE IF ~rStdin.isTTY /\ Trim(rStdin.data) # <<>>
        THEN rOut = JsonParse(rStdin.data)
        ELSE rOut = Returned(EmptyObject)

\* --values from a file wins over a --set pair and over piped JSON
ResolvePrecedenceNonBlankWitness ==
    /\ rPc = "done"
    /\ rOpts.values = {<<"@", "f">>}
    /\ SomeSetPair
    /\ ~rStdin.isTTY /\ rStdin.data = <<"{", "\"", "e", "\"", ":", "5", "}">>
    /\ rOut = Returned(ObjVal(<<"a">> :> NumVal(1)))
    /\ rReadFile = {<<"f">>}
    /\ ~rParsedSets
    /\ rReadStdin = "no"

(***************************************************************************)
(* C21: parseSets on a value wrapped in [...]: a valid JSON array is used  *)
(* unchanged; otherwise the brackets are stripped, the inside is split on  *)
(* `,` and every piece is scalar-coerced; an empty bracket pair yields the *)
(* empty array.                                                            *)
(***************************************************************************)
\* the text after `=` of the only pair, without the blanks around it
SetRaw == Trim(Slice(tSets[1], IndexOf(tSets[1], <<"=">>) + 1, Len(tSets[1])))

SetKey == Trim(Slice(tSets[1], 0, IndexOf(tSets[1], <<"=">>)))

Shorthand(inner) ==
    LET pieces == Split(inner, <<",">>)
    IN ArrVal([i \in 1..Len(pieces) |-> parseScalar(pieces[i])])

BracketedValue ==
    tPc = "array" =>
        LET json  == JsonParse(SetRaw)
            inner == Trim(Slice(SetRaw, 1, Len(SetRaw) - 1))
        IN /\ tOut.ok
           /\ DOMAIN tOut.v.o = {SetKey}
           /\ tOut.v.o[SetKey] = IF json.ok THEN json.v
                                 ELSE IF inner = <<>> THEN ArrVal(<<>>)
                                 ELSE Shorthand(inner)
           /\ SetRaw = <<"[", "]">> => tOut.v.o[SetKey] = ArrVal(<<>>)
           /\ SetRaw = <<"[", "\"", "a", "c", "m", "e", ".", "c", "o", "m", "\"", ",", "\"", "e", "x", "a", "m", "p", "l", "e", ".", "c", "o", "m", "\"", "]">> =>
                 tOut.v.o[SetKey] = ArrVal(<<StrVal(<<"a", "c", "m", "e", ".", "c", "o", "m">>), StrVal(<<"e", "x", "a", "m", "p", "l", "e", ".", "c", "o", "m">>)>>)
           /\ SetRaw = <<"[", "a", "l", "p", "h", "a", ",", "2", ",", "t", "r", "u", "e", "]">> =>
                 tOut.v.o[SetKey] = ArrVal(<<StrVal(<<"a", "l", "p", "h", "a">>), NumVal(2), TrueVal>>)

\* a shorthand array: not JSON because of the bare word
BracketedValueWitness ==
    /\ tPc = "array"
    /\ tSets = << <<"t", "a", "g", "s", "=", "[", "a", "l", "p", "h", "a", ",", "2", ",", "t", "r", "u", "e", "]">> >>
    /\ ~JsonParse(SetRaw).ok
    /\ tOut = Returned(ObjVal(<<"t", "a", "g", "s">> :> ArrVal(<<StrVal(<<"a", "l", "p", "h", "a">>), NumVal(2), TrueVal>>)))

(***************************************************************************)
(* C22: scalar coercion of a --set value applies its rules in this order:  *)
(* `true` or `false` becomes a boolean, `null` becomes null, text matching *)
(* the numeric pattern becomes a number, anything else becomes a string    *)
(* with an optional pair of surrounding quotes stripped; a token written   *)
(* inside quotes resolves to the string between the quotes.                *)
(***************************************************************************)
ScalarAsStated(text) ==
    CASE text = <<"t", "r", "u", "e">>  -> TrueVal
      [] text = <<"f", "a", "l", "s", "e">> -> FalseVal
      [] text = <<"n", "u", "l", "l">>  -> NullVal
      [] IsNumeric(text)  -> DecimalNumber(text)
      [] OTHER            -> StrVal(stripWrappingQuotes(text))

ScalarCoercionOrder ==
    tPc = "scalar" => tOut = Returned(ObjVal(SetKey :> ScalarAsStated(SetRaw)))

(***************************************************************************)
(* C23: requireValues throws the 'No values provided' error on an object   *)
(* with no keys and returns any non-empty object unchanged; in records     *)
(* create, update and assert the guard runs before the request, so with    *)
(* empty resolved values no POST, PATCH or PUT is ever sent.               *)
(***************************************************************************)
RecordCommands == {"records create", "records update", "records assert"}

\* what resolveValues gave the command that ran
WriteResolved ==
    resolveValues([values |-> wOpts.values, set |-> wOpts.set], wStdin).out

\* the handler got as far as resolving its values
ValuesWereResolved == wCmd = "records assert" => wOpts.match # {}

RequireValuesGuardFor(resolved) ==
    (wPc = "done" /\ wCmd \in RecordCommands /\ ValuesWereResolved
       /\ resolved.ok /\ resolved.v.t = "object") =>
        IF DOMAIN resolved.v.o = {}
        THEN wSent = <<>> /\ wError = {NoValuesError}
        ELSE wOpts.hasKey =>
                /\ Len(wSent) = 1
                /\ wSent[1].body.data.values = resolved.v

\* C23: records create, update and assert send their request only when the
\* resolved values hold at least one key, and stop with 'No values provided'
\* before any request otherwise.
RequireValuesGuard == RequireValuesGuardFor(WriteResolved)

\* records assert --match domains --values '{}' with nothing piped
RequireValuesGuardWitness ==
    /\ wPc = "done"
    /\ wCmd = "records assert"
    /\ wOpts.match = {"domains"}
    /\ wOpts.hasKey
    /\ wOpts.values = {<<"{", "}">>}
    /\ wSent = <<>>
    /\ wError = {NoValuesError}

(***************************************************************************)
(* C24: entries create succeeds with an explicitly empty values object:    *)
(* given --record R --object O --values '{}' the command sends POST to     *)
(* /lists/{list}/entries with parent_record_id = R, parent_object = O and  *)
(* entry_values = {} instead of failing with 'No values provided'.         *)
(***************************************************************************)
EntriesAcceptEmptyValues ==
    (wPc = "done" /\ wCmd = "entries create" /\ wOpts.hasKey
       /\ wOpts.values = {<<"{", "}">>}) =>
        /\ wError # {NoValuesError}
        /\ Len(wSent) = 1
        /\ wSent[1].method = "POST"
        /\ wSent[1].path = <<"/lists/", "my_list", "/entries">>
        /\ wSent[1].body.data = [parent_record_id |-> "rec_1",
                                 parent_object |-> "companies",
                                 entry_values |-> EmptyObject]

(***************************************************************************)
(* C25: quiet output prefers resource ids over workspace ids: when an      *)
(* item's id is an object holding workspace_id together with a resource id *)
(* outputSingle and outputList in quiet format print the resource id, one  *)
(* per line, whatever the order of the keys in the id object.              *)
(***************************************************************************)
HasBothIds(item) ==
    /\ item.t = "item"
    /\ item.id.t = "object"
    /\ Len(item.id.pairs) = 2
    /\ \E i \in 1..2 : item.id.pairs[i].k = "workspace_id"

ResourceId(item) ==
    LET i == CHOOSE i \in 1..2 : item.id.pairs[i].k # "workspace_id"
    IN item.id.pairs[i].v.s

QuietPrefersResourceId ==
    (oPc \in {"single", "list"} /\ \A i \in 1..Len(oItems) : HasBothIds(oItems[i])) =>
        oLog = [i \in 1..Len(oItems) |-> ResourceId(oItems[i])]

(***************************************************************************)
(* C26: for a non-unary filter expression parseFilterFlag splits attribute *)
(* and value at the first (leftmost) occurrence of any operator token,     *)
(* taking the longest token that starts there; operator characters later   *)
(* in the string remain part of the value.                                 *)
(***************************************************************************)
BinaryOps == {k \in 1..Len(OPERATORS) : ~OPERATORS[k].unary}

TokenAt(k, i) == MatchesAt(fExpr, OPERATORS[k].cli, i)

\* the leftmost position of fExpr where a binary token starts
LeftmostTokenPos ==
    CHOOSE i \in 0..Len(fExpr) :
        /\ \E k \in BinaryOps : TokenAt(k, i)
        /\ \A j \in 0..(i - 1) : \A k \in BinaryOps : ~TokenAt(k, j)

\* the longest binary token that starts at position i
LongestTokenAt(i) ==
    CHOOSE k \in BinaryOps :
        /\ TokenAt(k, i)
        /\ \A m \in BinaryOps : TokenAt(m, i) => Len(OPERATORS[m].cli) <= Len(OPERATORS[k].cli)

\* checked on the expressions that begin with an attribute name and hold
\* no `?`
LeftmostOperatorSplits ==
    (/\ fPc = "parsed"
     /\ StartsWith(fExpr, <<"a">>)
     /\ ~Contains(fExpr, <<"?">>)
     /\ \E k \in BinaryOps : Contains(fExpr, OPERATORS[k].cli)) =>
        fFrag = ApplyOperator(fExpr, OPERATORS[LongestTokenAt(LeftmostTokenPos)],
                              LeftmostTokenPos)

(***************************************************************************)
(* --filter-json against --filter on the list commands.                    *)
(***************************************************************************)
\* the command stopped on the error of the filter parser
FilterParserError ==
    \E i \in 1..Len(lOpts.filter) : lError = {FilterError(lOpts.filter[i])}

\* what JSON.parse makes of the text given to --filter-json
ParsedFilterJson == JsonParse(lOpts.filterJson.text)

\* C27, as the specification states it: whenever --filter-json is given to
\* a list command, the command never stops on a filter syntax error, and
\* the query carries exactly the parsed JSON as its filter.
FilterJsonBypassesParser ==
    (fPc = "listed" /\ lOpts.filterJson.given) =>
        /\ ~FilterParserError
        /\ ParsedFilterJson.ok =>
              lBody = <<[hasFilter |-> TRUE,
                         filter |-> RawFilter(ParsedFilterJson.v)]>>

\* C27, amended: whenever --filter-json is given with a text that is not
\* empty, the filter parser is not run (no filter syntax error, whatever
\* --filter holds), text that is not JSON stops the command with the
\* SyntaxError of JSON.parse before any request, and the parsed JSON is
\* the filter of the query when it is an object, array or string with at
\* least one key and is left out of the body otherwise; with the empty
\* text the command behaves as if --filter-json was absent.
FilterJsonNonEmptyBypassesParser ==
    fPc = "listed" =>
        /\ (lOpts.filterJson.given /\ lOpts.filterJson.text # <<>>) =>
              /\ ~FilterParserError
              /\ ~ParsedFilterJson.ok => (lError = {JsonSyntaxError} /\ lBody = <<>>)
              /\ ParsedFilterJson.ok =>
                    /\ lError = {}
                    /\ lFilter = {RawFilter(ParsedFilterJson.v)}
                    /\ lBody = <<[hasFilter |-> IsTruthy(ParsedFilterJson.v)
                                                 /\ KeysLength(ParsedFilterJson.v) > 0,
                                   filter |-> RawFilter(ParsedFilterJson.v)]>>
        /\ (lOpts.filterJson.given /\ lOpts.filterJson.text = <<>>) =>
              LET absent == ChooseFilter([given |-> FALSE, text |-> <<>>], lOpts.filter)
              IN  IF absent.ok THEN lError = {} /\ lFilter = absent.filter
                  ELSE lError = {absent.error} /\ lBody = <<>>

\* --filter-json '{"a":1}' next to the malformed --filter `a`: the query
\* goes out with the parsed object
FilterJsonNonEmptyBypassesParserWitness ==
    /\ fPc = "listed"
    /\ lOpts.filterJson.given
    /\ lOpts.filterJson.text = <<"{", "\"", "a", "\"", ":", "1", "}">>
    /\ \E i \in 1..Len(lOpts.filter) : ~parseFilterFlag(lOpts.filter[i]).ok
    /\ lError = {}
    /\ lBody = <<[hasFilter |-> TRUE,
                  filter |-> RawFilter(ObjVal(<<"a">> :> NumVal(1)))]>>

(***************************************************************************)
(* Confirmation before DELETE.                                             *)
(***************************************************************************)
\* the prompt was answered with the letter y, in either case
AnsweredYes == dAnswer \in {{<<"y">>}, {<<"Y">>}}

\* the prompt was shown and answered with something else
Declined == dAnswer # {} /\ ~AnsweredYes

\* C28: a delete command sends nothing but its one DELETE request, and
\* only when --yes was passed or the prompt was answered y; when the
\* prompt is declined the command has printed 'Aborted.' after the
\* question, has sent no HTTP request and raises no error.
DeleteOnlyAfterConfirmation ==
    /\ \A i \in 1..Len(dHttp) :
          /\ dHttp[i] = [method |-> "DELETE", path |-> DeletePath(dCmd)]
          /\ dOpts.yes \/ AnsweredYes
    /\ Len(dHttp) <= 1
    /\ dOpts.yes => dAnswer = {}
    /\ Declined =>
          /\ dPc = "done"
          /\ dLog = <<DeleteQuestion(dCmd), "Aborted.">>
          /\ dHttp = <<>>
          /\ dError = {}
    /\ (dPc = "prompt") => dHttp = <<>>

\* entries delete with a key configured, `yes` typed at the prompt
DeleteOnlyAfterConfirmationWitness ==
    /\ dPc = "done"
    /\ dCmd = "entries delete"
    /\ dOpts = [yes |-> FALSE, hasKey |-> TRUE]
    /\ dAnswer = {<<"y", "e", "s">>}
    /\ dLog = <<"Delete entry ent_1 from list lst_1? [y/N] ", "Aborted.">>
    /\ dHttp = <<>>

(***************************************************************************)
(* The wait before each 429 retry.                                         *)
(***************************************************************************)
\* 1 s, 2 s, 4 s
ExponentialDelays == <<1000, 2000, 4000>>

HeaderDelay(h) == IF h.kind = "seconds" THEN h.v * 1000 ELSE h.v

SelfRequest == [method |-> "GET", path |-> "/self", key |-> CHOOSE k \in iKey : TRUE]

\* the config file changes only after /self succeeded with the key that is
\* then stored, and nothing but that request is sent
SavedOnlyAfterValidation ==
    /\ iStored # iBefore => (iKey # {} /\ iHttp = <<SelfRequest>> /\ iResp = {"ok"}
                               /\ iStored = iKey)
    /\ iHttp # <<>> => (iKey # {} /\ iKey # {<<>>} /\ iHttp = <<SelfRequest>>)
    /\ iResp = {"ok"} => (iStored = iKey /\ iExit = {0})

\* no key was given, or nothing is left of it after the clean-up
NoKey == iKey \in {{}, {<<>>}}

\* the request to /self did not yield a body
ValidationFailed == iResp # {} /\ iResp # {"ok"}

\* C30, as the specification states it: the key is written only after
\* /self succeeded with it, and whenever the key is empty or the
\* validation fails the command ends with the stored configuration
\* unchanged and exit code 1.
InitValidatesBeforeSaving ==
    /\ SavedOnlyAfterValidation
    /\ (iPc = "done" /\ (NoKey \/ ValidationFailed)) =>
          (iStored = iBefore /\ iExit = {1})

\* C30, amended: the key is written only after /self succeeded with it;
\* when a key was given and nothing is left of it after the clean-up, or
\* the validation fails, the configuration is unchanged and the exit code
\* is 1; when the command ends without having a key to clean (no
\* --api-key or an empty one, and no terminal, a declined overwrite or a
\* closed prompt) the configuration is unchanged, nothing was sent and
\* the exit code is 0.
InitValidatesBeforeSavingOrStops ==
    /\ SavedOnlyAfterValidation
    /\ (iPc = "done" /\ (iKey = {<<>>} \/ ValidationFailed)) =>
          (iStored = iBefore /\ iExit = {1})
    /\ (iPc = "done" /\ iKey = {}) =>
          /\ iOpts.apiKey \in {{}, {<<>>}}
          /\ iStored = iBefore
          /\ iHttp = <<>>
          /\ iExit = {0}

\* --api-key '"k"' over an older key, and /self answers 401
InitValidatesBeforeSavingOrStopsWitness ==
    /\ iPc = "done"
    /\ iOpts.apiKey = {<<"\"", "k", "\"">>}
    /\ iKey = {<<"k">>}
    /\ iHttp = <<[method |-> "GET", path |-> "/self", key |-> <<"k">>]>>
    /\ iResp = {"401"}
    /\ iBefore = {<<"o">>}
    /\ iStored = {<<"o">>}
    /\ iExit = {1}

====
